---- MODULE Spec2Model ----
(***************************************************************************)
(* A model of the LanguageTool plugin (vc-languageTools): the match        *)
(* classifier and filter (utils/parser.ts), the check client and its cache *)
(* (utils/api.ts, utils/cache.ts), the durable and per-message suppression *)
(* tiers, and the edit pipeline of the controller (index.tsx).             *)
(*                                                                         *)
(* Texts are sequences of one-character strings, so that offsets, regular  *)
(* expressions and substring arithmetic are computed as the code computes  *)
(* them.  Offsets are 0-based as in JavaScript.                            *)
(***************************************************************************)
EXTENDS Integers, Sequences, FiniteSets, TLC

VARIABLES
    \* ---- utils/parser.ts: one parseMatches call -------------------------
    pText,              \* the text handed to parseMatches
    pResponse,          \* the oracle response handed to it (its matches)
    pPositions,         \* Some(what it returned), Null before the call
    \* ---- settings.ts -----------------------------------------------------
    settings,           \* checkSpelling, checkGrammar, showStyleSuggestions
    \* ---- utils/cache.ts: durable suppression ------------------------------
    ignoredWordsCache,  \* Null, or Some(the in-memory set of lower-cased words)
    dataStore,          \* what DataStore holds under IGNORED_WORDS_KEY: Null, Some(words)
    dsQueue,            \* the DataStore requests awaiting their answer, oldest first
    added,              \* words whose addIgnoredWord completed, not removed since (history)
    removed,            \* words whose removeIgnoredWord completed, not added since (history)
    \* ---- utils/cache.ts, utils/api.ts: the check client ------------------
    editor,             \* the text in the composer
    currentText,        \* index.tsx: the text handleTextChange last read
    currentPositions,   \* index.tsx: the stored issue list
    debounceTimer,      \* index.tsx: Null, or Some(the debounce timer last set)
    timers,             \* the other pending setTimeout callbacks
    sessionIgnoredWords, \* index.tsx: the words ignored for this message
    lastTextLength,     \* index.tsx: trimmed length of the text last read
    currentTextArea,    \* index.tsx: Null, or Some(the composer element bound to)
    underlineElements,  \* index.tsx: the markers mounted, each with its issue and rectangle
    clickListeners,     \* the elements handleTextAreaClick is registered on
    surface,            \* Null, or Some(the composer element in the document)
    observed,           \* the elements carrying __ltObserver
    checkInterval,      \* whether the discovery poll of start() is running
    popupElement,       \* Null, or Some(the issue the correction popup is open for)
    clickEvent,         \* the last click on the composer: where, and what became of it (history)
    args,               \* Null, or Some(the arguments a function of index.tsx is called with)
    returned,           \* Null, or Some(what that call returned)
    netAt,              \* the times of its last two network calls (history)
    posFrom,            \* the check (start time, text) that wrote currentPositions (history)
    newest,             \* the latest-started check that has written it (history)
    ignoredThisMessage, \* the words ignored since the last send (history)
    gestures,           \* how many times the user has acted (history)
    \* ---- utils/api.ts: queueCheck ---------------------------------------
    rateLimitTimeout,   \* Null, or Some(when the pending rate-limit timer is due)
    requestQueue,       \* the deferred requests
    lastRequestTime,    \* when queueCheck last called checkText
    requestLog,         \* the queueCheck requests made so far (history)
    now,                \* Date.now(), in milliseconds
    checkCache,         \* the Map, as its entries in insertion order
    inflight,           \* the fetches awaiting their response, oldest first
    lastFetch,          \* per text, how its latest fetch ended (history)
    last                \* the step just taken and what it returned (history)

parseVars == <<pText, pResponse, pPositions>>
wordVars == <<ignoredWordsCache, dataStore, dsQueue, added, removed>>
clientVars == <<now, checkCache, inflight, lastFetch, last>>
pipeVars == <<editor, currentText, currentPositions, debounceTimer, timers,
              sessionIgnoredWords, lastTextLength, currentTextArea>>
queueVars == <<rateLimitTimeout, requestQueue, lastRequestTime, requestLog>>
domVars == <<underlineElements, clickListeners>>
bindVars == <<surface, observed, checkInterval>>
clickVars == <<popupElement, clickEvent>>
callVars == <<args, returned>>
pipeHistory == <<netAt, posFrom, newest, ignoredThisMessage, gestures>>
vars == <<pText, pResponse, pPositions, settings,
          ignoredWordsCache, dataStore, dsQueue, added, removed,
          pipeVars, pipeHistory, queueVars, domVars, bindVars, clickVars,
          callVars, now, checkCache, inflight, lastFetch, last>>

\* A value that may be null is a sequence: <<>> for null, <<v>> for the value v
Null == <<>>
Some(v) == <<v>>

Min(a, b) == IF a < b THEN a ELSE b
Max(a, b) == IF a > b THEN a ELSE b

(***************************************************************************)
(* Characters and JavaScript string primitives                             *)
(***************************************************************************)
\* U+0060, which a TLA+ string literal cannot hold: the one character of the
\* model that is not written as itself
Backtick == "BACKTICK"
Digits == {"0", "1", "2", "3", "4", "5", "6", "7", "8", "9"}
LowerLetters == {"a", "b", "c", "d", "e", "f", "g", "h", "i", "j", "k", "l", "m",
                 "n", "o", "p", "q", "r", "s", "t", "u", "v", "w", "x", "y", "z"}
UpperToLower ==
    [c \in {"A", "B", "C", "D", "E", "F", "G", "H", "I", "J", "K", "L", "M",
            "N", "O", "P", "Q", "R", "S", "T", "U", "V", "W", "X", "Y", "Z"} |->
        CASE c = "A" -> "a" [] c = "B" -> "b" [] c = "C" -> "c" [] c = "D" -> "d"
          [] c = "E" -> "e" [] c = "F" -> "f" [] c = "G" -> "g" [] c = "H" -> "h"
          [] c = "I" -> "i" [] c = "J" -> "j" [] c = "K" -> "k" [] c = "L" -> "l"
          [] c = "M" -> "m" [] c = "N" -> "n" [] c = "O" -> "o" [] c = "P" -> "p"
          [] c = "Q" -> "q" [] c = "R" -> "r" [] c = "S" -> "s" [] c = "T" -> "t"
          [] c = "U" -> "u" [] c = "V" -> "v" [] c = "W" -> "w" [] c = "X" -> "x"
          [] c = "Y" -> "y" [] c = "Z" -> "z"]
UpperLetters == DOMAIN UpperToLower
Letters == LowerLetters \cup UpperLetters
\* \w of a JavaScript regular expression
WordChars == Letters \cup Digits \cup {"_"}
\* what String.prototype.trim removes (the ones the model's texts can hold)
WhiteSpace == {" ", "\n", "\t"}

\* String.prototype.toLowerCase
toLowerCase(s) ==
    [i \in 1..Len(s) |-> IF s[i] \in UpperLetters THEN UpperToLower[s[i]] ELSE s[i]]

\* String.prototype.substring(a, b): both ends clamped to [0, length], swapped
\* when a > b
substring(s, a, b) ==
    LET ca == Min(Max(a, 0), Len(s))
        cb == Min(Max(b, 0), Len(s))
    IN  SubSeq(s, Min(ca, cb) + 1, Max(ca, cb))

\* s.startsWith(p)
startsWith(s, p) == Len(s) >= Len(p) /\ SubSeq(s, 1, Len(p)) = p

\* the 0-based indices at which p occurs in s
Occurrences(s, p) ==
    {i \in 0..(Len(s) - Len(p)) : SubSeq(s, i + 1, i + Len(p)) = p}

\* s.indexOf(p), s.lastIndexOf(p)
indexOf(s, p) ==
    IF Occurrences(s, p) = {} THEN -1
    ELSE CHOOSE i \in Occurrences(s, p) : \A j \in Occurrences(s, p) : i <= j
lastIndexOf(s, p) ==
    IF Occurrences(s, p) = {} THEN -1
    ELSE CHOOSE i \in Occurrences(s, p) : \A j \in Occurrences(s, p) : i >= j

\* s.includes(p)
includes(s, p) == Occurrences(s, p) /= {}

\* (s.match(/c/g) || []).length
CountChar(s, c) == Cardinality({i \in 1..Len(s) : s[i] = c})

\* /^c+$/ : a non-empty run of the one character c
IsRunOf(s, c) == Len(s) > 0 /\ \A i \in 1..Len(s) : s[i] = c

\* /^\d+$/ and /^\w+$/
AllDigits(s) == Len(s) > 0 /\ \A i \in 1..Len(s) : s[i] \in Digits
AllWordChars(s) == Len(s) > 0 /\ \A i \in 1..Len(s) : s[i] \in WordChars

(***************************************************************************)
(* The platform's URL parser, as far as isURL depends on it: new URL(s)    *)
(* with no base succeeds when s, stripped of surrounding blanks, starts    *)
(* with a scheme and a colon and, where a host is read, the host is valid. *)
(***************************************************************************)
SchemeTail == Letters \cup Digits \cup {"+", "-", "."}
SpecialSchemes == {<<"h", "t", "t", "p">>, <<"h", "t", "t", "p", "s">>,
                   <<"f", "t", "p">>, <<"w", "s">>, <<"w", "s", "s">>}
FileScheme == <<"f", "i", "l", "e">>
ForbiddenHostChars == {" ", "<", ">", "[", "]", "^", "|", "\\"}
AuthorityEnd == {"/", "?", "#"}

\* s without the characters of set cs
Without(s, cs) == SelectSeq(s, LAMBDA c : c \notin cs)

\* s stripped of leading and trailing blanks
Strip(s) ==
    LET keep == {i \in 1..Len(s) : s[i] \notin WhiteSpace}
    IN  IF keep = {} THEN <<>>
        ELSE SubSeq(s, CHOOSE i \in keep : \A j \in keep : i <= j,
                       CHOOSE i \in keep : \A j \in keep : i >= j)

\* String.prototype.trim
trim(s) == Strip(s)

\* the 1-based index of the first character of s in set cs, Len(s)+1 if none
FirstIn(s, cs) ==
    LET at == {i \in 1..Len(s) : s[i] \in cs}
    IN  IF at = {} THEN Len(s) + 1 ELSE CHOOSE i \in at : \A j \in at : i <= j

\* the 1-based index of the last character of s in set cs, 0 if none
LastIn(s, cs) ==
    LET at == {i \in 1..Len(s) : s[i] \in cs}
    IN  IF at = {} THEN 0 ELSE CHOOSE i \in at : \A j \in at : i >= j

\* s without its leading characters of set cs
DropLeading(s, cs) ==
    LET keep == {i \in 1..Len(s) : s[i] \notin cs}
    IN  IF keep = {} THEN <<>>
        ELSE SubSeq(s, CHOOSE i \in keep : \A j \in keep : i <= j, Len(s))

\* host[:port] of an authority (what follows the last "@"): the host holds no
\* forbidden character and the port is digits
HostPortOK(auth, needHost) ==
    LET hp == SubSeq(auth, LastIn(auth, {"@"}) + 1, Len(auth))
        colon == FirstIn(hp, {":"})
        host == SubSeq(hp, 1, colon - 1)
        port == SubSeq(hp, colon + 1, Len(hp))
    IN  /\ needHost => Len(host) > 0
        /\ \A i \in 1..Len(host) : host[i] \notin ForbiddenHostChars
        /\ \A i \in 1..Len(port) : port[i] \in Digits

URLParses(s) ==
    LET t == Strip(Without(s, {"\n", "\t"}))
        colon == FirstIn(t, {":"})
        scheme == toLowerCase(SubSeq(t, 1, colon - 1))
        rest == SubSeq(t, colon + 1, Len(t))
    IN  /\ colon <= Len(t)
        /\ Len(scheme) > 0
        /\ scheme[1] \in Letters
        /\ \A i \in 1..Len(scheme) : scheme[i] \in SchemeTail
        /\ IF scheme \in SpecialSchemes
           THEN LET r == DropLeading(rest, {"/", "\\"})
                    auth == SubSeq(r, 1, FirstIn(r, AuthorityEnd \cup {"\\"}) - 1)
                IN  HostPortOK(auth, TRUE)
           ELSE IF scheme = FileScheme THEN TRUE
           ELSE IF startsWith(rest, <<"/", "/">>)
           THEN LET r == SubSeq(rest, 3, Len(rest))
                    auth == SubSeq(r, 1, FirstIn(r, AuthorityEnd) - 1)
                IN  HostPortOK(auth, FALSE)
           ELSE TRUE

(***************************************************************************)
(* types.ts, settings.ts: the shapes of the data                           *)
(***************************************************************************)
\* a well-formed response body holding the matches ms
Response(ms) == [falsy |-> FALSE, hasMatches |-> TRUE, matches |-> ms]
\* a body that is JSON null, and one that is an object with no matches list
NullBody == [falsy |-> TRUE, hasMatches |-> FALSE, matches |-> <<>>]
NoMatchesBody == [falsy |-> FALSE, hasMatches |-> FALSE, matches |-> <<>>]

\* the defaults of the three category toggles
AllEnabled ==
    [checkSpelling |-> TRUE, checkGrammar |-> TRUE, showStyleSuggestions |-> TRUE]

(***************************************************************************)
(* utils/parser.ts                                                         *)
(***************************************************************************)
\* the substring a match flags
FlaggedText(match, text) == substring(text, match.offset, match.offset + match.length)

isDiscordMarkdown(matchText) ==
    \E c \in {"*", "_", "~", Backtick, ">"} : IsRunOf(matchText, c)

\* /^<@!?\d+>$/, /^<@&\d+>$/, /^<#\d+>$/
MatchesTag(s, open) ==
    /\ Len(s) > Len(open) + 1
    /\ startsWith(s, open)
    /\ s[Len(s)] = ">"
    /\ AllDigits(SubSeq(s, Len(open) + 1, Len(s) - 1))

\* isDiscordMention without the role pattern
isDiscordMention_NoRole(text) ==
    \/ MatchesTag(text, <<"<", "@">>) \/ MatchesTag(text, <<"<", "@", "!">>)
    \/ MatchesTag(text, <<"<", "#">>)

isDiscordMention(text) ==
    \/ MatchesTag(text, <<"<", "@">>) \/ MatchesTag(text, <<"<", "@", "!">>)
    \/ MatchesTag(text, <<"<", "@", "&">>)
    \/ MatchesTag(text, <<"<", "#">>)

\* /^<a?:\w+:\d+>$/
EmojiAfter(s, open) ==
    /\ startsWith(s, open)
    /\ Len(s) > Len(open)
    /\ s[Len(s)] = ">"
    /\ LET body == SubSeq(s, Len(open) + 1, Len(s) - 1)
           colon == FirstIn(body, {":"})
       IN  /\ colon <= Len(body)
           /\ AllWordChars(SubSeq(body, 1, colon - 1))
           /\ AllDigits(SubSeq(body, colon + 1, Len(body)))

isDiscordEmoji(text) ==
    EmojiAfter(text, <<"<", ":">>) \/ EmojiAfter(text, <<"<", "a", ":">>)

\* /^https?:\/\//
HttpPrefix(text) ==
    \/ startsWith(text, <<"h", "t", "t", "p", ":", "/", "/">>)
    \/ startsWith(text, <<"h", "t", "t", "p", "s", ":", "/", "/">>)

isURL(text) == IF URLParses(text) THEN TRUE ELSE HttpPrefix(text)

Fence == <<Backtick, Backtick, Backtick>>
FenceNewline == <<Backtick, Backtick, Backtick, "\n">>

isCodeBlock(text, offset) ==
    LET beforeText == substring(text, 0, offset)
        afterText == substring(text, offset, Len(text))
        codeBlockStart == lastIndexOf(beforeText, Fence)
        codeBlockEnd == indexOf(afterText, Fence)
        inlineCodeBefore == CountChar(beforeText, Backtick)
        inlineCodeAfter == CountChar(afterText, Backtick)
    IN  IF codeBlockStart = -1 THEN FALSE
        ELSE IF codeBlockEnd = -1 THEN FALSE
        ELSE IF inlineCodeBefore % 2 = 1 /\ inlineCodeAfter % 2 = 1 THEN TRUE
        ELSE codeBlockStart > lastIndexOf(beforeText, FenceNewline)

shouldSkipMatch(match, text) ==
    LET matchText == FlaggedText(match, text)
    IN  \/ isDiscordMarkdown(matchText)
        \/ isDiscordMention(matchText)
        \/ isDiscordEmoji(matchText)
        \/ isURL(matchText)
        \/ isCodeBlock(text, match.offset)

Misspelling == <<"m", "i", "s", "s", "p", "e", "l", "l", "i", "n", "g">>
Typo == <<"t", "y", "p", "o">>
Style == <<"s", "t", "y", "l", "e">>
Redundancy == <<"r", "e", "d", "u", "n", "d", "a", "n", "c", "y">>

\* categorizeMatch that tests for style before spelling
categorizeMatch_StyleFirst(match) ==
    LET issueType == toLowerCase(match.issueType)
        categoryId == toLowerCase(match.categoryId)
    IN  IF \/ includes(issueType, Style) \/ includes(categoryId, Style)
           \/ includes(categoryId, Redundancy)
        THEN "style"
        ELSE IF includes(issueType, Misspelling) \/ includes(categoryId, Typo)
        THEN "spelling"
        ELSE "grammar"

categorizeMatch(match) ==
    LET issueType == toLowerCase(match.issueType)
        categoryId == toLowerCase(match.categoryId)
    IN  IF includes(issueType, Misspelling) \/ includes(categoryId, Typo)
        THEN "spelling"
        ELSE IF \/ includes(issueType, Style) \/ includes(categoryId, Style)
                \/ includes(categoryId, Redundancy)
        THEN "style"
        ELSE "grammar"

shouldShowMatchType(type) ==
    /\ ~(type = "spelling" /\ ~settings.checkSpelling)
    /\ ~(type = "grammar" /\ ~settings.checkGrammar)
    /\ ~(type = "style" /\ ~settings.showStyleSuggestions)

\* utils/cache.ts
isWordIgnored(word) ==
    IF ignoredWordsCache = Null THEN FALSE
    ELSE toLowerCase(word) \in ignoredWordsCache[1]

\* one iteration of parseMatches' loop: whether the match is kept
KeepsMatch(match, text) ==
    /\ ~shouldSkipMatch(match, text)
    /\ shouldShowMatchType(categorizeMatch(match))
    /\ ~isWordIgnored(FlaggedText(match, text))

\* the issue pushed for a kept match
PositionOf(match) ==
    [start |-> match.offset, end |-> match.offset + match.length,
     type |-> categorizeMatch(match), match |-> match]

RECURSIVE ParseLoop(_, _)
ParseLoop(matches, text) ==
    IF matches = <<>> THEN <<>>
    ELSE (IF KeepsMatch(Head(matches), text)
          THEN <<PositionOf(Head(matches))>> ELSE <<>>)
         \o ParseLoop(Tail(matches), text)

\* a response body is a record: falsy (a JSON null) or an object, whose matches
\* field is a list or missing
\* parseMatches that returns nothing when run twice in a row
parseMatches_SkipsRepeat(response, text) ==
    IF last.op = "parse" \/ response.falsy \/ ~response.hasMatches THEN <<>>
    ELSE ParseLoop(response.matches, text)

\* parseMatches that returns the issues newest match first
parseMatches_NewestFirst(response, text) ==
    IF response.falsy \/ ~response.hasMatches THEN <<>>
    ELSE LET kept == ParseLoop(response.matches, text)
         IN  [i \in 1..Len(kept) |-> kept[Len(kept) + 1 - i]]

parseMatches(response, text) ==
    IF response.falsy \/ ~response.hasMatches THEN <<>>
    ELSE ParseLoop(response.matches, text)

(***************************************************************************)
(* utils/cache.ts: the check-result cache                                  *)
(***************************************************************************)
CACHE_TTL == 300000
CacheCapacity == 50

HasEntry(text) == \E i \in 1..Len(checkCache) : checkCache[i].text = text
EntryIndex(text) == CHOOSE i \in 1..Len(checkCache) : checkCache[i].text = text
Expired(entry) == now - entry.timestamp > CACHE_TTL

\* s without its i-th element
RemoveAt(s, i) == SubSeq(s, 1, i - 1) \o SubSeq(s, i + 1, Len(s))

\* getCachedCheck with >= for >: an entry expires when its age reaches the TTL
getCachedCheck_ExpiresAtTtl(text) ==
    IF ~HasEntry(text) THEN Null
    ELSE IF now - checkCache[EntryIndex(text)].timestamp >= CACHE_TTL THEN Null
    ELSE Some(checkCache[EntryIndex(text)].response)

\* what getCachedCheck(text) returns: Null, or Some(the cached response)
getCachedCheck(text) ==
    IF ~HasEntry(text) THEN Null
    ELSE IF Expired(checkCache[EntryIndex(text)]) THEN Null
    ELSE Some(checkCache[EntryIndex(text)].response)

\* the cache getCachedCheck(text) leaves: an expired entry is deleted on read
CacheAfterGet(text) ==
    IF HasEntry(text) /\ Expired(checkCache[EntryIndex(text)])
    THEN RemoveAt(checkCache, EntryIndex(text))
    ELSE checkCache

\* the cache setCachedCheck(text, response) leaves: Map.set keeps the place of
\* a key it already holds, and the first key is deleted past the capacity
setCachedCheck(text, response) ==
    LET entry == [text |-> text, response |-> response, timestamp |-> now]
        put == IF HasEntry(text)
               THEN [checkCache EXCEPT ![EntryIndex(text)] = entry]
               ELSE Append(checkCache, entry)
    IN  IF Len(put) > CacheCapacity THEN Tail(put) ELSE put

\* clearCache()
clearCache == <<>>

(***************************************************************************)
(* utils/cache.ts: the durable suppression set                             *)
(*                                                                         *)
(* DataStore answers its requests in the order they were made.  A request  *)
(* in dsQueue carries the continuation of the call that awaits it: what    *)
(* runs, up to the call's next await, when the answer arrives.             *)
(***************************************************************************)
\* new Set(words.map(w => w.word.toLowerCase())) of what DataStore.get returned,
\* new Set() when it rejected
LoadedWords(ok) ==
    IF ~ok \/ dataStore = Null THEN {}
    ELSE {toLowerCase(w) : w \in dataStore[1]}

\* addIgnoredWord that stores the word as it was typed
WordsAfterAdd_AsTyped(words, word) == words \cup {word}

\* words.add(lowerWord), words.delete(lowerWord)
WordsAfterAdd(words, word) == words \cup {toLowerCase(word)}
WordsAfterRemove(words, word) == words \ {toLowerCase(word)}

\* the set a call of kind op leaves, from the set its load returned
WordsAfter(op, words, word) ==
    IF op = "add" THEN WordsAfterAdd(words, word)
    ELSE IF op = "remove" THEN WordsAfterRemove(words, word)
    ELSE words

GetRequest(op, word) == [kind |-> "get", value |-> {}, op |-> op, word |-> word]
SetRequest(op, word, value) == [kind |-> "set", value |-> value, op |-> op, word |-> word]

(***************************************************************************)
(* utils/api.ts: checkText                                                 *)
(***************************************************************************)
MIN_REQUEST_INTERVAL == 3000

\* how a fetch may end: a 2xx response with a JSON body, a 2xx response whose
\* body is not JSON, HTTP 429, another non-success status, a transport failure
FailureKinds == {"badjson", "429", "500", "neterr"}
Ok(body) == [kind |-> "ok", body |-> body]
Failure(kind) == [kind |-> kind, body |-> NullBody]

\* checkText that turns away the empty text only
checkTextRejects_EmptyOnly(text) == text = <<>>

\* if (!text.trim()) return null
checkTextRejects(text) == trim(text) = <<>>

\* if (cached) return cached
checkTextHit(text) ==
    getCachedCheck(text) /= Null /\ ~getCachedCheck(text)[1].falsy

\* what checkText resolves to once its fetch has ended: Null, or Some(body)
checkTextResult(outcome) ==
    IF outcome.kind = "ok" /\ ~outcome.body.falsy THEN Some(outcome.body) ELSE Null

\* checkText with setCachedCheck called before response.ok is tested
checkTextStores_BeforeOkTest(text, outcome) ==
    IF outcome.kind \in {"ok", "429", "500"}
    THEN setCachedCheck(text, outcome.body) ELSE checkCache

\* the cache checkText leaves once its fetch has ended
checkTextStores(text, outcome) ==
    IF outcome.kind = "ok" THEN setCachedCheck(text, outcome.body) ELSE checkCache

(***************************************************************************)
(* The states of the components a specification leaves alone               *)
(***************************************************************************)
NoStep == [op |-> "init", text |-> <<>>, resolved |-> FALSE, result |-> Null,
           issued |-> FALSE, outcome |-> "none", touched |-> FALSE]
IdleParse == pText = <<>> /\ pResponse = NullBody /\ pPositions = Null
NoCheck == [seq |-> 0, text |-> <<>>]
IdlePipe ==
    /\ editor = <<>> /\ currentText = <<>> /\ currentPositions = <<>>
    /\ debounceTimer = Null /\ timers = {}
    /\ sessionIgnoredWords = {} /\ lastTextLength = 0
    /\ currentTextArea = Some("textbox")
    /\ netAt = <<>> /\ posFrom = NoCheck /\ newest = NoCheck
    /\ ignoredThisMessage = {} /\ gestures = 0
IdleQueue ==
    /\ rateLimitTimeout = Null /\ requestQueue = <<>>
    /\ lastRequestTime = 0 /\ requestLog = <<>>
IdleDom == underlineElements = <<>> /\ clickListeners = {}
IdleClick == popupElement = Null /\ clickEvent = Null
IdleCall == args = Null /\ returned = Null
\* every variable but args and returned
otherVars ==
    <<parseVars, settings, wordVars, pipeVars, pipeHistory, queueVars, domVars,
      bindVars, clickVars, clientVars>>
\* bound to the one composer in the document, the poll running
IdleBind == surface = Some("textbox") /\ observed = {"textbox"} /\ checkInterval = TRUE
IdleStore == dataStore = Null /\ dsQueue = <<>> /\ added = {} /\ removed = {}
IdleClient ==
    /\ now = 0 /\ checkCache = <<>> /\ inflight = <<>>
    /\ lastFetch = {} /\ last = NoStep
\* the state a function of index.tsx is called in when only its arguments matter
IdleProgram ==
    /\ IdleParse /\ IdleClient /\ IdleStore /\ IdlePipe /\ IdleQueue /\ IdleDom
    /\ IdleBind /\ IdleClick
    /\ settings = AllEnabled
    /\ ignoredWordsCache = Null

(***************************************************************************)
(* SpecParse: parseMatches applied to bounded texts and oracle responses   *)
(***************************************************************************)
\* how far past the end of the text a reported match may reach: the oracle's
\* response is not validated against the text
MaxSlack == 1

Concat3(a, b, c) == a \o b \o c

\* what a text is built around
Cores ==
    { <<Backtick, "a", Backtick>>,
      <<"<", "@", "1", "2", ">">>, <<"<", "@", "!", "1", ">">>,
      <<"<", "@", "&", "1", ">">>, <<"<", "#", "1", ">">>,
      <<"<", "@", "a", ">">>,
      <<"<", ":", "a", ":", "1", ">">>, <<"<", "a", ":", "a", ":", "1", ">">>,
      <<"h", "t", "t", "p", ":", "/", "/", "a">>,
      <<"h", "t", "t", "p", "s", ":", "/", "/", "a">>,
      <<"t", "e", "h">>, <<"T", "e", "h">>,
      <<"*", "*">> }
Prefixes == { <<>>, <<"a", " ">>, <<Backtick>>, Fence }
Suffixes == { <<>>, <<" ", "a">>, <<Backtick>>, Fence }
Texts == {Concat3(p, c, s) : p \in Prefixes, c \in Cores, s \in Suffixes}

\* the rule descriptors the oracle tags its matches with
Rules ==
    { [issueType |-> Misspelling, categoryId |-> <<"T", "Y", "P", "O", "S">>],
      [issueType |-> <<"g", "r", "a", "m", "m", "a", "r">>,
       categoryId |-> <<"G", "R", "A", "M", "M", "A", "R">>],
      [issueType |-> Style, categoryId |-> <<"S", "T", "Y", "L", "E">>] }

\* the matches an oracle may report for a text: any span, also an empty one and
\* one that reaches past the end of the text
MatchesFor(text) ==
    {[offset |-> o, length |-> l, issueType |-> r.issueType, categoryId |-> r.categoryId] :
        o \in 0..(Len(text) + MaxSlack), l \in 0..(Len(text) + MaxSlack), r \in Rules}
MatchesWithin(text) ==
    {m \in MatchesFor(text) : m.offset + m.length <= Len(text) + MaxSlack}

SettingsChoices ==
    { AllEnabled,
      [checkSpelling |-> FALSE, checkGrammar |-> TRUE, showStyleSuggestions |-> TRUE],
      [checkSpelling |-> TRUE, checkGrammar |-> FALSE, showStyleSuggestions |-> TRUE],
      [checkSpelling |-> TRUE, checkGrammar |-> TRUE, showStyleSuggestions |-> FALSE] }

IgnoredChoices == { Null, Some({<<"t", "e", "h">>}) }

InitParse ==
    /\ IdleClient /\ IdleStore /\ IdlePipe /\ IdleQueue /\ IdleDom
    /\ IdleBind /\ IdleClick /\ IdleCall
    /\ pText \in Texts
    /\ pResponse = NullBody
    /\ pPositions = Null
    /\ settings \in SettingsChoices
    /\ ignoredWordsCache \in IgnoredChoices

\* the response arrives and parseMatches runs on it
ParseResponse ==
    /\ pPositions = Null
    /\ \E m \in MatchesWithin(pText) :
          /\ pResponse' = Response(<<m>>)
          /\ pPositions' = Some(parseMatches(Response(<<m>>), pText))
    /\ UNCHANGED <<pText, settings, queueVars, domVars, bindVars, clickVars, callVars,
                   wordVars, clientVars,
                   pipeVars, pipeHistory>>

NextParse == ParseResponse

SpecParse == InitParse /\ [][NextParse]_vars

(***************************************************************************)
(* Claims about parseMatches, checked under SpecParse                      *)
(***************************************************************************)
\* the one match of the response parseMatches was called with
TheMatch == pResponse.matches[1]
Parsed == pPositions /= Null
Issues == pPositions[1]

\* C8: for every text T and every oracle response, each issue returned by
\* parseMatches(response, T) satisfies 0 <= start < end <= len(T).
C8_IssueWithinText ==
    Parsed =>
        \A i \in 1..Len(Issues) :
            /\ 0 <= Issues[i].start
            /\ Issues[i].start < Issues[i].end
            /\ Issues[i].end <= Len(pText)

\* a backtick, some text without a backtick, a backtick
IsInlineCodeSpan(s) ==
    /\ Len(s) >= 3
    /\ s[1] = Backtick /\ s[Len(s)] = Backtick
    /\ \A i \in 2..(Len(s) - 1) : s[i] /= Backtick

\* C9: a match whose flagged substring is exactly a balanced inline code span is
\* excluded by parseMatches, whatever the rest of the text is.
C9_InlineCodeSpanExcluded ==
    (Parsed /\ IsInlineCodeSpan(FlaggedText(TheMatch, pText))) => Issues = <<>>

\* the mention, emoji and URL tokens of the chat syntax that the texts hold
MentionTokens ==
    { <<"<", "@", "1", "2", ">">>, <<"<", "@", "!", "1", ">">>,
      <<"<", "@", "&", "1", ">">>, <<"<", "#", "1", ">">> }
EmojiTokens ==
    { <<"<", ":", "a", ":", "1", ">">>, <<"<", "a", ":", "a", ":", "1", ">">> }
UrlTokens ==
    { <<"h", "t", "t", "p", ":", "/", "/", "a">>,
      <<"h", "t", "t", "p", "s", ":", "/", "/", "a">> }
ExcludedTokens == MentionTokens \cup EmojiTokens \cup UrlTokens

\* C10: a match whose flagged substring is exactly a user, role or channel
\* mention token, a custom emoji token, or an http(s) URL is excluded by
\* parseMatches regardless of category toggles and suppression state.
C10_TokensExcluded ==
    (Parsed /\ FlaggedText(TheMatch, pText) \in ExcludedTokens) => Issues = <<>>

\* a role mention inside other text was flagged, with every category enabled and
\* nothing suppressed, and parseMatches returned no issue
C10_Witness ==
    /\ Parsed
    /\ FlaggedText(TheMatch, pText) = <<"<", "@", "&", "1", ">">>
    /\ TheMatch.offset = 2
    /\ settings.checkSpelling /\ settings.checkGrammar /\ settings.showStyleSuggestions
    /\ ignoredWordsCache = Null
    /\ Issues = <<>>

(***************************************************************************)
(* SpecFences: parseMatches on texts with fenced and inline code spans     *)
(***************************************************************************)
TehInline == <<Backtick>> \o <<"t", "e", "h">> \o <<Backtick>>
FencedA == Fence \o <<"a">> \o Fence
FencedB == Fence \o <<"b">> \o Fence
FenceTexts ==
    { TehInline,
      <<"a", " ">> \o TehInline \o <<" ", "b">>,
      Fence \o <<"t", "e", "h">> \o Fence,
      Fence \o <<"\n", "t", "e", "h", "\n">> \o Fence,
      FencedA \o <<" ", "t", "e", "h">>,
      <<"t", "e", "h", " ">> \o FencedB,
      FencedA \o <<" ", "t", "e", "h", " ">> \o FencedB }

InitFences ==
    /\ IdleClient /\ IdleStore /\ IdlePipe /\ IdleQueue /\ IdleDom
    /\ IdleBind /\ IdleClick /\ IdleCall
    /\ pText \in FenceTexts
    /\ pResponse = NullBody
    /\ pPositions = Null
    /\ settings \in SettingsChoices
    /\ ignoredWordsCache \in IgnoredChoices

SpecFences == InitFences /\ [][NextParse]_vars

\* the triple backticks of s, read from the left
RECURSIVE FenceCount(_)
FenceCount(s) ==
    IF Len(s) < Len(Fence) THEN 0
    ELSE IF startsWith(s, Fence)
    THEN 1 + FenceCount(SubSeq(s, Len(Fence) + 1, Len(s)))
    ELSE FenceCount(Tail(s))
\* the backticks of s that belong to no triple backtick
SingleBackticks(s) == CountChar(s, Backtick) - Len(Fence) * FenceCount(s)

\* the offset lies between an opening and a closing triple backtick
InFencedSpan(text, offset) ==
    /\ FenceCount(substring(text, 0, offset)) % 2 = 1
    /\ FenceCount(substring(text, offset, Len(text))) >= 1
\* an odd number of single backticks before the offset, a closing one after it
InInlineSpan(text, offset) ==
    /\ SingleBackticks(substring(text, 0, offset)) % 2 = 1
    /\ SingleBackticks(substring(text, offset, Len(text))) >= 1
InCodeSpan(text, offset) == InFencedSpan(text, offset) \/ InInlineSpan(text, offset)

\* the match flags at least one character of the text
FlagsText == TheMatch.length > 0 /\ TheMatch.offset + TheMatch.length <= Len(pText)

\* C27: a match whose offset lies inside a fenced or an inline code span is
\* excluded by parseMatches, also in a text without any triple backtick.
C27_CodeSpanExcluded ==
    (Parsed /\ FlagsText /\ InCodeSpan(pText, TheMatch.offset)) => Issues = <<>>

\* C28: with every category enabled and nothing suppressed, a match whose
\* flagged substring is not markup, a mention, an emoji or a URL and whose
\* offset lies outside every fenced and inline code span is not skipped: it
\* is returned as an issue.
C28_OnlyCodeAndMarkupSkipped ==
    ( /\ Parsed /\ FlagsText
      /\ settings = AllEnabled /\ ignoredWordsCache = Null
      /\ LET matchText == FlaggedText(TheMatch, pText)
         IN  /\ ~isDiscordMarkdown(matchText) /\ ~isDiscordMention(matchText)
             /\ ~isDiscordEmoji(matchText) /\ ~isURL(matchText)
      /\ ~InCodeSpan(pText, TheMatch.offset) )
        => Issues /= <<>>

(***************************************************************************)
(* SpecBatch: parseMatches on responses that carry several matches         *)
(***************************************************************************)
MaxMatches == 3

TehMentionWrod ==
    <<"t", "e", "h", " ", "<", "@", "1", "2", ">", " ", "w", "r", "o", "d">>
TehTeh == <<"T", "e", "h", " ", "t", "e", "h">>
BatchTexts == { TehMentionWrod, TehTeh }

SpellingRule == [issueType |-> Misspelling, categoryId |-> <<"T", "Y", "P", "O", "S">>]
GrammarRule ==
    [issueType |-> <<"g", "r", "a", "m", "m", "a", "r">>,
     categoryId |-> <<"G", "R", "A", "M", "M", "A", "R">>]
StyleRule == [issueType |-> Style, categoryId |-> <<"S", "T", "Y", "L", "E">>]

Match(offset, length, rule) ==
    [offset |-> offset, length |-> length,
     issueType |-> rule.issueType, categoryId |-> rule.categoryId]

\* the matches the oracle may put in a response for a text, in any order and
\* any number of times
BatchMatches(text) ==
    IF text = TehMentionWrod
    THEN { Match(0, 3, SpellingRule), Match(4, 5, GrammarRule),
           Match(10, 4, GrammarRule), Match(10, 4, SpellingRule),
           Match(0, 14, StyleRule) }
    ELSE { Match(0, 3, SpellingRule), Match(4, 3, SpellingRule),
           Match(4, 3, GrammarRule), Match(0, 7, StyleRule) }

SeqsUpTo(S, n) == UNION { [1..k -> S] : k \in 0..n }

InitBatch ==
    /\ IdleClient /\ IdleStore /\ IdlePipe /\ IdleQueue /\ IdleDom
    /\ IdleBind /\ IdleClick /\ IdleCall
    /\ pText \in BatchTexts
    /\ pResponse = NullBody
    /\ pPositions = Null
    /\ settings \in SettingsChoices
    /\ ignoredWordsCache \in IgnoredChoices

\* the response arrives and parseMatches runs on it
ParseBatch ==
    /\ pPositions = Null
    /\ \E ms \in SeqsUpTo(BatchMatches(pText), MaxMatches) :
          /\ pResponse' = Response(ms)
          /\ pPositions' = Some(parseMatches(Response(ms), pText))
    /\ UNCHANGED <<pText, settings, queueVars, domVars, bindVars, clickVars, callVars,
                   wordVars, clientVars,
                   pipeVars, pipeHistory>>

NextBatch == ParseBatch

SpecBatch == InitBatch /\ [][NextBatch]_vars

\* the words of the durable tier as the program holds them
DurableWords == IF ignoredWordsCache = Null THEN {} ELSE ignoredWordsCache[1]

ToggleEnabled(type) ==
    IF type = "spelling" THEN settings.checkSpelling
    ELSE IF type = "grammar" THEN settings.checkGrammar
    ELSE settings.showStyleSuggestions

\* the places in response.matches of the matches that are to become issues
KeptIndices ==
    { i \in 1..Len(pResponse.matches) :
        LET m == pResponse.matches[i]
        IN  /\ ~shouldSkipMatch(m, pText)
            /\ ToggleEnabled(categorizeMatch(m))
            /\ toLowerCase(FlaggedText(m, pText)) \notin DurableWords }
\* the place in the issue list of the match at place i
Rank(i) == Cardinality({ k \in KeptIndices : k <= i })

\* C29: parseMatches(response, text) returns exactly the subsequence of
\* response.matches, in the oracle's order, of the matches that are not
\* skipped, whose category toggle is enabled and whose flagged word is not in
\* the durable set, each as an issue with start = offset and
\* end = offset + length.
C29_OrderedSubsequence ==
    Parsed =>
        /\ Len(Issues) = Cardinality(KeptIndices)
        /\ \A i \in KeptIndices :
              LET m == pResponse.matches[i]
                  issue == Issues[Rank(i)]
              IN  /\ issue.match = m
                  /\ issue.start = m.offset
                  /\ issue.end = m.offset + m.length

\* "wrod", the mention and "teh" reported in that order: the mention is
\* dropped and the issue of "wrod" comes before the issue of "teh"
C29_Witness ==
    /\ Parsed
    /\ pText = TehMentionWrod
    /\ settings = AllEnabled /\ ignoredWordsCache = Null
    /\ pResponse.matches = << Match(10, 4, GrammarRule), Match(4, 5, GrammarRule),
                              Match(0, 3, SpellingRule) >>
    /\ Len(Issues) = 2
    /\ Issues[1].start = 10 /\ Issues[1].end = 14
    /\ Issues[2].start = 0 /\ Issues[2].end = 3

(***************************************************************************)
(* SpecCategorize: parseMatches on one match of "teh", for every pairing   *)
(* of the issue types and category ids below                               *)
(***************************************************************************)
IssueTypes ==
    { Misspelling, <<"M", "i", "s", "s", "p", "e", "l", "l", "i", "n", "g">>,
      Style, <<"g", "r", "a", "m", "m", "a", "r">>,
      <<"t", "y", "p", "o", "g", "r", "a", "p", "h", "i", "c", "a", "l">>,
      <<"u", "n", "c", "a", "t", "e", "g", "o", "r", "i", "z", "e", "d">> }
CategoryIds ==
    { <<"T", "Y", "P", "O", "S">>, <<"S", "T", "Y", "L", "E">>,
      <<"R", "E", "D", "U", "N", "D", "A", "N", "C", "Y">>,
      <<"G", "R", "A", "M", "M", "A", "R">>,
      <<"P", "U", "N", "C", "T", "U", "A", "T", "I", "O", "N">>,
      <<"c", "r", "e", "a", "t", "i", "v", "e", "_", "s", "t", "y", "l", "e">> }

InitCategorize ==
    /\ IdleClient /\ IdleStore /\ IdlePipe /\ IdleQueue /\ IdleDom
    /\ IdleBind /\ IdleClick /\ IdleCall
    /\ pText = <<"t", "e", "h">>
    /\ \E it \in IssueTypes, cid \in CategoryIds :
          pResponse = Response(<<[offset |-> 0, length |-> 3,
                                  issueType |-> it, categoryId |-> cid]>>)
    /\ pPositions = Null
    /\ settings \in SettingsChoices
    /\ ignoredWordsCache = Null

\* parseMatches runs on the response
Categorized ==
    /\ pPositions = Null
    /\ pPositions' = Some(parseMatches(pResponse, pText))
    /\ UNCHANGED <<pText, pResponse, settings, queueVars, domVars, bindVars, clickVars,
                   callVars, wordVars,
                   clientVars, pipeVars,
                   pipeHistory>>

NextCategorize == Categorized

SpecCategorize == InitCategorize /\ [][NextCategorize]_vars

\* whether s contains the lower-case word p, letter case aside
ContainsWord(s, p) ==
    \E i \in 1..(Len(s) - Len(p) + 1) : toLowerCase(SubSeq(s, i, i + Len(p) - 1)) = p
SignalsSpelling(m) ==
    ContainsWord(m.issueType, Misspelling) \/ ContainsWord(m.categoryId, Typo)
SignalsStyle(m) ==
    \/ ContainsWord(m.issueType, Style) \/ ContainsWord(m.categoryId, Style)
    \/ ContainsWord(m.categoryId, Redundancy)
CategoryToggle(type) ==
    IF type = "spelling" THEN settings.checkSpelling
    ELSE IF type = "style" THEN settings.showStyleSuggestions
    ELSE settings.checkGrammar

\* C12: every match gets exactly one category: spelling when its issue type
\* contains "misspelling" or its category id contains "typo"; otherwise style
\* when its issue type or category id contains "style" or its category id
\* contains "redundancy"; otherwise grammar.  The issue carries that category
\* and is dropped exactly when the category's toggle is off.
C12_OneCategoryPerMatch ==
    pPositions /= Null =>
        LET m == pResponse.matches[1]
            type == IF SignalsSpelling(m) THEN "spelling"
                    ELSE IF SignalsStyle(m) THEN "style"
                    ELSE "grammar"
        IN  /\ Len(pPositions[1]) <= 1
            /\ (pPositions[1] = <<>>) <=> ~CategoryToggle(type)
            /\ \A i \in 1..Len(pPositions[1]) : pPositions[1][i].type = type

\* a match that signals both style and typo was categorized as spelling
C12_Witness ==
    /\ pPositions /= Null /\ pPositions[1] /= <<>>
    /\ pResponse.matches[1].issueType = Style
    /\ pResponse.matches[1].categoryId = <<"T", "Y", "P", "O", "S">>
    /\ pPositions[1][1].type = "spelling"

(***************************************************************************)
(* SpecCheck: clients call checkText while time passes and fetches end     *)
(***************************************************************************)
\* the clock visits p * CACHE_TTL and p * CACHE_TTL + 1 for p up to MaxPeriods
MaxPeriods == 1
\* fetches awaiting their response at one time
MaxInflight == 1

Teh == <<"t", "e", "h">>
Cat == <<"c", "a", "t">>
ClientTexts == { <<>>, <<" ">>, Teh, Cat }
TimePoints == {p * CACHE_TTL + q : p \in 0..MaxPeriods, q \in 0..1}

\* the correction the oracle offers for a misspelt word
Correction(w) ==
    IF w = Teh THEN <<"t", "h", "e">> ELSE <<"w", "o", "r", "d">>
SpellingMatch(o, w) ==
    [offset |-> o, length |-> Len(w), replacements |-> <<Correction(w)>>,
     issueType |-> SpellingRule.issueType, categoryId |-> SpellingRule.categoryId]

\* the words the oracle reports as misspelt
Misspelt == { Teh, <<"w", "r", "o", "d">> }

\* the oracle's matches for a text: each occurrence of a misspelt word, in
\* the order of the text
RECURSIVE MatchesFrom(_, _)
MatchesFrom(text, o) ==
    IF o >= Len(text) THEN <<>>
    ELSE LET here == {w \in Misspelt :
                         startsWith(toLowerCase(SubSeq(text, o + 1, Len(text))), w)}
         IN  IF here = {} THEN MatchesFrom(text, o + 1)
             ELSE LET w == CHOOSE x \in here : TRUE
                  IN  <<SpellingMatch(o, w)>> \o MatchesFrom(text, o + Len(w))
OracleMatches(text) == MatchesFrom(text, 0)

\* the bodies a 2xx response for a text may carry
OracleBodies(text) == { Response(OracleMatches(text)), NullBody }
Outcomes(text) ==
    {Ok(b) : b \in OracleBodies(text)} \cup {Failure(k) : k \in FailureKinds}

\* lastFetch, with the way the fetch for a text just ended
NoteFetch(text, ok) ==
    {r \in lastFetch : r.text /= text} \cup {[text |-> text, ok |-> ok, at |-> now]}

\* checkText(text) up to its first await, for the caller's continuation c
checkTextCalled(text, c) ==
    /\ IF checkTextRejects(text)
       THEN /\ last' = [op |-> "call", text |-> text, resolved |-> TRUE, result |-> Null,
                        issued |-> FALSE, outcome |-> "none", touched |-> FALSE]
            /\ UNCHANGED <<checkCache, inflight>>
       ELSE /\ checkCache' = CacheAfterGet(text)
            /\ IF checkTextHit(text)
               THEN /\ last' = [op |-> "call", text |-> text, resolved |-> TRUE,
                                result |-> getCachedCheck(text), issued |-> FALSE,
                                outcome |-> "none",
                                touched |-> CacheAfterGet(text) /= checkCache]
                    /\ UNCHANGED inflight
               ELSE /\ inflight' = Append(inflight,
                            [text |-> text, caller |-> c,
                             touched |-> CacheAfterGet(text) /= checkCache])
                    /\ last' = [op |-> "call", text |-> text, resolved |-> FALSE,
                                result |-> Null, issued |-> TRUE, outcome |-> "none",
                                touched |-> CacheAfterGet(text) /= checkCache]
    /\ UNCHANGED now

\* the fetch of inflight[i] ends and checkText resolves
checkTextResumed(i, outcome) ==
    /\ inflight' = RemoveAt(inflight, i)
    /\ checkCache' = checkTextStores(inflight[i].text, outcome)
    /\ last' = [op |-> "return", text |-> inflight[i].text, resolved |-> TRUE,
                result |-> checkTextResult(outcome), issued |-> FALSE,
                outcome |-> outcome.kind,
                touched |-> inflight[i].touched
                            \/ checkTextStores(inflight[i].text, outcome) /= checkCache]
    /\ UNCHANGED now

InitCheck ==
    /\ IdleParse /\ IdleClient /\ IdleStore /\ IdlePipe /\ IdleQueue /\ IdleDom
    /\ IdleBind /\ IdleClick /\ IdleCall
    /\ settings = AllEnabled
    /\ ignoredWordsCache = Null

Tick ==
    /\ \E t \in TimePoints : t > now /\ now' = t
    /\ last' = [NoStep EXCEPT !.op = "tick"]
    /\ UNCHANGED <<checkCache, inflight, lastFetch, parseVars, settings, queueVars,
                   domVars, bindVars, clickVars, callVars, wordVars,
                   pipeVars, pipeHistory>>

ClientCalls ==
    /\ Len(inflight) < MaxInflight
    /\ \E text \in ClientTexts : checkTextCalled(text, "client")
    /\ UNCHANGED lastFetch
    /\ UNCHANGED <<parseVars, settings, queueVars, domVars, bindVars, clickVars, callVars,
                   wordVars, pipeVars,
                   pipeHistory>>

FetchEnds ==
    /\ \E i \in 1..Len(inflight) : \E outcome \in Outcomes(inflight[i].text) :
          /\ checkTextResumed(i, outcome)
          /\ lastFetch' = NoteFetch(inflight[i].text, checkTextResult(outcome) /= Null)
    /\ UNCHANGED <<parseVars, settings, queueVars, domVars, bindVars, clickVars, callVars,
                   wordVars, pipeVars,
                   pipeHistory>>

\* clearCache(), as start() and stop() call it
CacheCleared ==
    /\ checkCache' = clearCache
    /\ lastFetch' = {}
    /\ last' = [NoStep EXCEPT !.op = "clear"]
    /\ UNCHANGED <<now, inflight, parseVars, settings, queueVars, domVars, bindVars, clickVars,
                   callVars,
                   wordVars, pipeVars, pipeHistory>>

NextCheck == Tick \/ ClientCalls \/ FetchEnds \/ CacheCleared

SpecCheck == InitCheck /\ [][NextCheck]_vars

(***************************************************************************)
(* Claims about checkText and the cache, checked under SpecCheck           *)
(***************************************************************************)
\* C1: for every text T, a checkText(T) made after a checkText(T) whose fetch
\* succeeded issues no network call while the age of the cached result is
\* within the 5-minute freshness window, and issues one once it is past it.
C1_CacheFreshness ==
    (last.op = "call" /\ ~checkTextRejects(last.text)) =>
        \A r \in lastFetch :
            (r.text = last.text /\ r.ok) => (last.issued <=> now - r.at > CACHE_TTL)

\* a second checkText of a text whose fetch succeeded exactly CACHE_TTL ago was
\* answered from the cache
C1_Witness ==
    /\ last.op = "call" /\ last.text = Teh
    /\ \E r \in lastFetch : r.text = Teh /\ r.ok /\ now - r.at = CACHE_TTL
    /\ ~last.issued /\ last.resolved /\ last.result /= Null

\* C15: checkText on an empty or whitespace-only text returns null at once,
\* issues no network call and leaves the cache as it was.
C15_BlankTextReturnsNull ==
    (last.op = "call" /\ \A i \in 1..Len(last.text) : last.text[i] \in WhiteSpace) =>
        /\ last.resolved /\ last.result = Null
        /\ ~last.issued
        /\ ~last.touched

\* checkText(" ") has returned while the cache held an entry
C15_Witness ==
    /\ last.op = "call" /\ last.text = <<" ">>
    /\ last.resolved /\ last.result = Null
    /\ checkCache /= <<>>

\* C3 (as claimed): when checkText resolves to null after HTTP 429, another
\* non-success status, a transport failure or a body-parse failure, the call
\* has left the check-result cache unchanged.
C3_CacheUnchangedByFailedCall ==
    (last.op = "return" /\ last.outcome \in FailureKinds) => ~last.touched

\* the entries of a cache
Entries(cache) == {cache[i] : i \in 1..Len(cache)}

\* C3 (amended): checkText resolves to null on HTTP 429, on any other
\* non-success status and on a transport or body-parse failure, and writes
\* nothing into the cache in these cases: the step that ends the fetch leaves
\* the cache as it is, and the step that makes the call adds no entry and
\* deletes at most the expired entry of the submitted text.
C3_FailedCallWritesNothing ==
    [][ /\ (last'.op = "return" /\ last'.outcome \in FailureKinds)
            => (last'.resolved /\ last'.result = Null /\ checkCache' = checkCache)
        /\ (last'.op = "call")
            => /\ Entries(checkCache') \subseteq Entries(checkCache)
               /\ \A e \in Entries(checkCache) \ Entries(checkCache') :
                      e.text = last'.text /\ now - e.timestamp > CACHE_TTL
      ]_vars

\* a fetch ended with HTTP 429 while the cache held an entry, and checkText
\* resolved to null
C3_Witness ==
    /\ last.op = "return" /\ last.outcome = "429"
    /\ last.resolved /\ last.result = Null
    /\ checkCache /= <<>>

(***************************************************************************)
(* SpecWords: addIgnoredWord, removeIgnoredWord, clearIgnoredWords and     *)
(* loadIgnoredWords interleave at their awaits; parseMatches runs between  *)
(***************************************************************************)
\* DataStore requests awaiting their answer at one time
MaxPending == 2

Wrod == <<"w", "r", "o", "d">>
\* the words the user adds and removes, as typed
TypedWords == { <<"T", "e", "h">>, Wrod }
\* the texts parseMatches runs on
WordTexts == { <<"t", "e", "h">>, <<"T", "E", "H", " ", "w", "r", "o", "d">> }

Step(op, word) == [NoStep EXCEPT !.op = op, !.text = word]

InitWords ==
    /\ IdleParse /\ IdleClient /\ IdlePipe /\ IdleQueue /\ IdleDom
    /\ IdleBind /\ IdleClick /\ IdleCall
    /\ settings = AllEnabled
    /\ ignoredWordsCache = Null
    /\ dataStore \in {Null, Some({}), Some({<<"t", "e", "h">>})}
    /\ dsQueue = <<>>
    /\ added = {} /\ removed = {}

\* loadIgnoredWords(), as start() and the dictionary dialog call it
LoadCalled ==
    /\ ignoredWordsCache = Null
    /\ Len(dsQueue) < MaxPending
    /\ dsQueue' = Append(dsQueue, GetRequest("load", <<>>))
    /\ last' = Step("loadCalled", <<>>)
    /\ UNCHANGED <<ignoredWordsCache, dataStore, added, removed,
                   parseVars, settings, queueVars, domVars, bindVars, clickVars, callVars, now,
                   checkCache,
                   inflight, lastFetch,
                   pipeVars, pipeHistory>>

\* addIgnoredWord(word) or removeIgnoredWord(word), to its first DataStore await
WordCalled(op, word) ==
    /\ Len(dsQueue) < MaxPending
    /\ IF ignoredWordsCache = Null
       THEN /\ dsQueue' = Append(dsQueue, GetRequest(op, word))
            /\ UNCHANGED ignoredWordsCache
       ELSE /\ ignoredWordsCache' = Some(WordsAfter(op, ignoredWordsCache[1], word))
            /\ dsQueue' = Append(dsQueue,
                    SetRequest(op, word, WordsAfter(op, ignoredWordsCache[1], word)))
    /\ added' = IF op = "remove" THEN added \ {toLowerCase(word)} ELSE added
    /\ removed' = IF op = "add" THEN removed \ {toLowerCase(word)} ELSE removed
    /\ last' = Step(IF op = "add" THEN "addCalled" ELSE "removeCalled", word)
    /\ UNCHANGED <<dataStore, parseVars, settings, queueVars, domVars, bindVars, clickVars,
                   callVars, now,
                   checkCache, inflight, lastFetch,
                   pipeVars, pipeHistory>>

AddCalled == \E word \in TypedWords : WordCalled("add", word)
RemoveCalled == \E word \in TypedWords : WordCalled("remove", word)

\* clearIgnoredWords(), to its await
ClearCalled ==
    /\ Len(dsQueue) < MaxPending
    /\ ignoredWordsCache' = Some({})
    /\ dsQueue' = Append(dsQueue, SetRequest("clear", <<>>, {}))
    /\ added' = {}
    /\ UNCHANGED removed
    /\ last' = Step("clearCalled", <<>>)
    /\ UNCHANGED <<dataStore, parseVars, settings, queueVars, domVars, bindVars, clickVars,
                   callVars, now,
                   checkCache, inflight, lastFetch,
                   pipeVars, pipeHistory>>

\* DataStore answers its oldest get: loadIgnoredWords finishes and its caller
\* runs on to its DataStore.set
GetAnswered(ok) ==
    LET r == Head(dsQueue)
        words == WordsAfter(r.op, LoadedWords(ok), r.word)
    IN  /\ r.kind = "get"
        /\ ignoredWordsCache' = Some(words)
        /\ dsQueue' = IF r.op = "load" THEN Tail(dsQueue)
                      ELSE Append(Tail(dsQueue), SetRequest(r.op, r.word, words))
        /\ added' = IF r.op = "remove" THEN added \ {toLowerCase(r.word)} ELSE added
        /\ removed' = IF r.op = "add" THEN removed \ {toLowerCase(r.word)} ELSE removed
        /\ last' = [Step("loaded", r.word) EXCEPT
                      !.outcome = IF ok THEN "none" ELSE "rejected"]
        /\ UNCHANGED dataStore

\* DataStore answers its oldest set: the call updates the cache again and
\* completes; when the set was rejected the call rejects
SetAnswered(ok) ==
    LET r == Head(dsQueue)
        lowerWord == toLowerCase(r.word)
    IN  /\ r.kind = "set"
        /\ dsQueue' = Tail(dsQueue)
        /\ IF ok
           THEN /\ dataStore' = Some(r.value)
                /\ ignoredWordsCache' =
                      IF ignoredWordsCache = Null \/ r.op = "clear" THEN ignoredWordsCache
                      ELSE Some(WordsAfter(r.op, ignoredWordsCache[1], r.word))
                /\ added' = IF r.op = "add" THEN added \cup {lowerWord}
                            ELSE IF r.op = "remove" THEN added \ {lowerWord}
                            ELSE added
                /\ removed' = IF r.op = "remove" THEN removed \cup {lowerWord}
                              ELSE IF r.op = "add" THEN removed \ {lowerWord}
                              ELSE removed
                /\ last' = Step(IF r.op = "add" THEN "addDone"
                                ELSE IF r.op = "remove" THEN "removeDone"
                                ELSE "clearDone", r.word)
           ELSE /\ UNCHANGED <<dataStore, ignoredWordsCache, added, removed>>
                /\ last' = Step("rejected", r.word)

DataStoreAnswers ==
    /\ dsQueue /= <<>>
    /\ \E ok \in BOOLEAN : GetAnswered(ok) \/ SetAnswered(ok)
    /\ UNCHANGED <<parseVars, settings, queueVars, domVars, bindVars, clickVars, callVars, now,
                   checkCache,
                   inflight, lastFetch,
                   pipeVars, pipeHistory>>

\* the pipeline runs parseMatches on the oracle's response for a text
WordsParsed ==
    /\ \E text \in WordTexts :
          /\ pText' = text
          /\ pResponse' = Response(OracleMatches(text))
          /\ pPositions' = Some(parseMatches(Response(OracleMatches(text)), text))
          \* last.resolved: the step before was a run on the same text
          /\ last' = [Step("parse", text) EXCEPT
                        !.resolved = (last.op = "parse" /\ last.text = text)]
    /\ UNCHANGED <<settings, queueVars, domVars, bindVars, clickVars, callVars, wordVars, now,
                   checkCache,
                   inflight, lastFetch,
                   pipeVars, pipeHistory>>

NextWords ==
    LoadCalled \/ AddCalled \/ RemoveCalled \/ ClearCalled \/ DataStoreAnswers
    \/ WordsParsed

SpecWords == InitWords /\ [][NextWords]_vars

(***************************************************************************)
(* Claims about the durable suppression set, checked under SpecWords       *)
(***************************************************************************)
\* whether the issue list holds an issue for a match
Reported(match) == \E i \in 1..Len(pPositions[1]) : pPositions[1][i].match = match
FlaggedMatches == {pResponse.matches[i] : i \in 1..Len(pResponse.matches)}

\* C5: once addIgnoredWord(w) has completed, for w in any letter case, every
\* issue list parseMatches produces excludes every match whose flagged text
\* equals w case-insensitively; once removeIgnoredWord(w) has completed, such
\* matches are produced again.
C5_DurableSuppression ==
    last.op = "parse" =>
        \A m \in FlaggedMatches :
            /\ toLowerCase(FlaggedText(m, pText)) \in added => ~Reported(m)
            /\ toLowerCase(FlaggedText(m, pText)) \in removed => Reported(m)

\* C16: once every addIgnoredWord, removeIgnoredWord and clearIgnoredWords
\* call has completed, however their asynchronous steps interleaved, the
\* in-memory set and the list persisted under the key both hold the words
\* added and not removed since.
C16_SetsHoldAddedWords ==
    (dsQueue = <<>> /\ added /= {}) =>
        /\ ignoredWordsCache /= Null /\ added \subseteq ignoredWordsCache[1]
        /\ dataStore /= Null /\ added \subseteq dataStore[1]

C5_Witness ==
    /\ last.op = "parse"
    /\ pText = <<"T", "E", "H", " ", "w", "r", "o", "d">>
    /\ <<"t", "e", "h">> \in added /\ Wrod \in removed
    /\ Len(pPositions[1]) = 1
    /\ pPositions[1][1].start = 4

\* the step is DataStore rejecting the get of a load or the set of a save
LoadRejected == last'.op = "loaded" /\ last'.outcome = "rejected"
SaveRejected == last'.op = "rejected"

\* C36: if the persistence collaborator rejects a suppression load or a
\* suppression save, the operation does not propagate an error to its caller
\* (plugin start, the popup's add-to-dictionary action, the dictionary
\* dialog), the durable set for the session falls back to an empty in-memory
\* set, and the operation is not retried.
C36_PersistenceFailureAbsorbed ==
    [][ (LoadRejected \/ SaveRejected) =>
          \* the call goes on or resolves: it does not reject
          /\ ~SaveRejected
          \* the set is empty, but for the word a call goes on to add after
          \* its load was rejected
          /\ ignoredWordsCache' /= Null
          /\ ignoredWordsCache'[1] \subseteq
                (IF LoadRejected THEN {toLowerCase(last'.text)} ELSE {})
          \* no request is made again
          /\ \A i \in 1..Len(dsQueue') :
                dsQueue'[i].kind = "get" => \E k \in 1..Len(dsQueue) : dsQueue[k] = dsQueue'[i]
      ]_vars

(***************************************************************************)
(* utils/parser.ts: applySuggestion; index.tsx: the edit pipeline          *)
(***************************************************************************)
applySuggestion(text, match, replacement) ==
    substring(text, 0, match.offset) \o replacement
        \o substring(text, match.offset + match.length, Len(text))

\* settings.store.debounceDelay and settings.store.maxCharacters, at their defaults
debounceDelay == 600
maxCharacters == 2000
\* settings.store.maxCharacters: the configured value, the default without one
MaxCharactersOf(store) ==
    IF "maxCharacters" \in DOMAIN store THEN store.maxCharacters ELSE maxCharacters
\* the delays of the setTimeout calls of showTooltip
RerunDelay == 100
InsertDelay == 10
RecheckDelay == 300
\* lastTextLength > 5: the text length above which emptying counts as a send
SentLength == 5

Timer(kind, text, delay) == [kind |-> kind, text |-> text, due |-> now + delay]

\* if (lastTextLength > 5 && isEmpty)
ClearsIgnored(isEmpty) == lastTextLength > SentLength /\ isEmpty

\* clearUnderlines(): the markers left mounted
clearUnderlines == <<>>

\* a node of the document: a text node with its text's length, or any other
\* node with its childNodes
TextNode(len) == [text |-> TRUE, len |-> len, kids |-> <<>>]
Element(kids) == [text |-> FALSE, len |-> 0, kids |-> kids]

\* traverse(node) of findTextNode: walk is the closure's currentPosition and
\* the number of text nodes passed; a text node is taken when the target is
\* reached (or, strict, passed) within it
RECURSIVE traverse(_, _, _, _)
traverse(node, walk, targetPosition, strict) ==
    IF node.text
    THEN IF \/ (~strict /\ walk.currentPosition + node.len >= targetPosition)
            \/ (strict /\ walk.currentPosition + node.len > targetPosition)
         THEN [walk EXCEPT !.result = Some([node |-> walk.passed + 1,
                                           offset |-> targetPosition - walk.currentPosition])]
         ELSE [walk EXCEPT !.currentPosition = walk.currentPosition + node.len,
                           !.passed = walk.passed + 1]
    ELSE IF node.kids = <<>> THEN walk
    ELSE LET first == traverse(Head(node.kids), walk, targetPosition, strict)
         IN  IF first.result /= Null THEN first
             ELSE traverse(Element(Tail(node.kids)), first, targetPosition, strict)

StartOfWalk == [currentPosition |-> 0, passed |-> 0, result |-> Null]

\* findTextNode that takes a text node only when the target lies before its end
findTextNode_BeforeEnd(element, targetPosition) ==
    traverse(element, StartOfWalk, targetPosition, TRUE).result

\* findTextNode(element, targetPosition): Null, or the text node, as its place
\* among the text nodes of the element, and the offset in it
findTextNode(element, targetPosition) ==
    traverse(element, StartOfWalk, targetPosition, FALSE).result

\* the nodes of the composer: none when it is empty, else one text node in
\* a span
ComposerDom ==
    IF editor = <<>> THEN Element(<<>>)
    ELSE Element(<<Element(<<TextNode(Len(editor))>>)>>)

\* findRangeForPosition(start, end): whether it returns a range
findRangeForPosition(start, end) ==
    /\ currentTextArea /= Null
    /\ findTextNode(ComposerDom, start) /= Null
    /\ findTextNode(ComposerDom, end) /= Null

\* how many characters the composer shows on a line
LineLength == 3

\* range.getClientRects() for the characters start..end: one rectangle per
\* line from the line of start to the line of end, in character cells; the
\* one of a line on which the range holds no character has width 0
getClientRects(start, end) ==
    LET first == start \div LineLength
        lines == IF end <= start THEN 1 ELSE (end \div LineLength) - first + 1
    IN  [i \in 1..lines |->
            LET from == Max(start, (first + i - 1) * LineLength)
                to == Min(end, (first + i) * LineLength)
            IN  [line |-> first + i - 1,
                 left |-> from - (first + i - 1) * LineLength,
                 width |-> Max(to - from, 0)]]

\* the markers the loop body of addVisualUnderlines mounts for one issue
MarkersOf(pos) ==
    IF ~findRangeForPosition(pos.start, pos.end) THEN <<>>
    ELSE LET rects == getClientRects(pos.start, pos.end)
             NotEmpty(rect) == rect.width /= 0
             shown == SelectSeq(rects, NotEmpty)
         IN  [i \in 1..Len(shown) |-> [position |-> pos, rect |-> shown[i]]]

RECURSIVE MountAll(_)
MountAll(positions) ==
    IF positions = <<>> THEN <<>>
    ELSE MarkersOf(Head(positions)) \o MountAll(Tail(positions))

\* addVisualUnderlines that leaves the earlier markers mounted
addVisualUnderlines_KeepsMounted(positions, text) ==
    IF currentTextArea = Null THEN underlineElements
    ELSE underlineElements \o MountAll(positions)

\* addVisualUnderlines(positions, text): the markers mounted afterwards
addVisualUnderlines(positions, text) ==
    IF currentTextArea = Null THEN underlineElements
    ELSE clearUnderlines \o MountAll(positions)

\* clearTimeout(handle), among the timers pending
clearTimeout(handle, pending) ==
    IF handle = Null THEN pending ELSE pending \ {handle[1]}

\* handleTextChange without the clearTimeout of lines 597-599
handleTextChange_NoClear(text, pending, mounted) ==
    LET trimmedText == trim(text)
    IN  /\ currentText' = text
        /\ sessionIgnoredWords' =
              IF ClearsIgnored(Len(trimmedText) = 0) THEN {} ELSE sessionIgnoredWords
        /\ lastTextLength' = Len(trimmedText)
        /\ IF Len(text) = 0
           THEN /\ currentPositions' = <<>>
                /\ underlineElements' = clearUnderlines
                /\ timers' = pending
                /\ UNCHANGED debounceTimer
           ELSE IF Len(text) > MaxCharactersOf(settings)
           THEN /\ timers' = pending
                /\ underlineElements' = mounted
                /\ UNCHANGED <<currentPositions, debounceTimer>>
           ELSE /\ debounceTimer' = Some(Timer("debounce", text, debounceDelay))
                /\ timers' = pending \cup {Timer("debounce", text, debounceDelay)}
                /\ underlineElements' = mounted
                /\ UNCHANGED currentPositions

\* handleTextChange(textArea), text being what the editor holds, pending the
\* timers and mounted the markers its caller leaves
handleTextChange(text, pending, mounted) ==
    LET trimmedText == trim(text)
    IN  /\ currentText' = text
        /\ sessionIgnoredWords' =
              IF ClearsIgnored(Len(trimmedText) = 0) THEN {} ELSE sessionIgnoredWords
        /\ lastTextLength' = Len(trimmedText)
        /\ IF Len(text) = 0
           THEN /\ currentPositions' = <<>>
                /\ underlineElements' = clearUnderlines
                /\ timers' = pending
                /\ UNCHANGED debounceTimer
           ELSE IF Len(text) > MaxCharactersOf(settings)
           THEN /\ timers' = pending
                /\ underlineElements' = mounted
                /\ UNCHANGED <<currentPositions, debounceTimer>>
           ELSE /\ debounceTimer' = Some(Timer("debounce", text, debounceDelay))
                /\ timers' = clearTimeout(debounceTimer, pending)
                                \cup {Timer("debounce", text, debounceDelay)}
                /\ underlineElements' = mounted
                /\ UNCHANGED currentPositions

\* positions.filter(pos => !sessionIgnoredWords.has(word))
FilteredPositions(response, text) ==
    LET Kept(pos) ==
            toLowerCase(substring(text, pos.start, pos.end)) \notin sessionIgnoredWords
    IN  SelectSeq(parseMatches(response, text), Kept)

\* the debounce callback without the assignment of line 622
StoredPositions_KeepsOnNull(text, result) ==
    IF result = Null THEN currentPositions ELSE FilteredPositions(result[1], text)

\* what the debounce callback stores once checkText(text) has resolved to result
StoredPositions(text, result) ==
    IF result = Null THEN <<>> ELSE FilteredPositions(result[1], text)

\* the debounce callback after its await, for the check of text started at seq
Stores(seq, text, result) ==
    /\ currentPositions' = StoredPositions(text, result)
    \* response.matches.length throws when the body has no matches list, before
    \* addVisualUnderlines and addClickHandlers are reached
    /\ underlineElements' =
          IF result = Null THEN clearUnderlines
          ELSE IF ~result[1].hasMatches THEN underlineElements
          ELSE addVisualUnderlines(StoredPositions(text, result), text)
    \* addClickHandlers(textArea, ...), textArea being the element observed
    /\ clickListeners' =
          IF result = Null \/ ~result[1].hasMatches THEN clickListeners
          ELSE clickListeners \cup {"textbox"}
    /\ posFrom' = [seq |-> seq, text |-> text]
    /\ newest' = IF seq > newest.seq THEN [seq |-> seq, text |-> text] ELSE newest

(***************************************************************************)
(* Spec: the pipeline of index.tsx between the composer, its timers and    *)
(* checkText.  Time is observed at the deadlines of the pending timers.    *)
(***************************************************************************)
\* the clock stops here
Horizon == 2400
\* checks awaiting their response at one time
MaxChecks == 2
\* the user acts at most this many times
MaxGestures == 3

Gesture == gestures < MaxGestures /\ gestures' = gestures + 1

TehWrod == <<"t", "e", "h", " ", "w", "r", "o", "d">>
\* what the user types into the composer
ComposerTexts == { <<>>, Teh, TehWrod }

Deadlines == {t.due : t \in timers}
Pending(kind) == {t \in timers : t.kind = kind}

Init ==
    /\ IdleParse /\ IdleClient /\ IdleStore /\ IdlePipe /\ IdleQueue /\ IdleDom
    /\ IdleBind /\ IdleClick /\ IdleCall
    /\ settings = AllEnabled
    /\ ignoredWordsCache = Some({})

\* the user changes the composer's text: the MutationObserver of
\* attachToTextArea runs handleTextChange
UserEdits ==
    /\ Gesture
    /\ Pending("insert") = {}
    /\ \E text \in ComposerTexts \ {editor} :
          /\ editor' = text
          \* handleInput clears the markers while the input listener is on
          /\ handleTextChange(text, timers,
                              IF currentTextArea = Null THEN underlineElements
                              ELSE clearUnderlines)
          /\ ignoredThisMessage' = IF text = <<>> THEN {} ELSE ignoredThisMessage
    /\ last' = Step("edit", currentText)
    /\ UNCHANGED <<netAt, posFrom, newest,
                   currentTextArea, parseVars, settings, queueVars, clickListeners,
                   bindVars, clickVars, callVars,
                   wordVars, now,
                   checkCache, inflight, lastFetch>>

\* the user sends the message: the composer is emptied
SendMessage ==
    /\ Gesture
    /\ Pending("insert") = {}
    /\ trim(editor) /= <<>>
    /\ editor' = <<>>
    /\ handleTextChange(<<>>, timers, underlineElements)
    /\ ignoredThisMessage' = {}
    /\ last' = Step("send", currentText)
    /\ UNCHANGED <<netAt, posFrom, newest,
                   currentTextArea, parseVars, settings, queueVars, clickListeners,
                   bindVars, clickVars, callVars,
                   wordVars, now,
                   checkCache, inflight, lastFetch>>

\* hideTooltip: the popup is removed
hideTooltip == Null

\* handleTextAreaClick: the issues a click at character clickPosition falls on
IssuesAt(clickPosition) ==
    {i \in 1..Len(currentPositions) :
        /\ clickPosition >= currentPositions[i].start
        /\ clickPosition <= currentPositions[i].end}
\* the issues showTooltip can be opened for: the first issue in list order at
\* some character position of the composer
ClickableIssues ==
    {i \in 1..Len(currentPositions) :
        \E clickPosition \in 0..Len(editor) :
            /\ i \in IssuesAt(clickPosition)
            /\ \A j \in IssuesAt(clickPosition) : i <= j}

\* showTooltip's ignore button, for the issue the user clicked on
ClickIgnore ==
    /\ Gesture
    /\ currentTextArea /= Null
    /\ \E i \in ClickableIssues :
          LET match == currentPositions[i].match
              word == substring(currentText, match.offset, match.offset + match.length)
          IN  /\ sessionIgnoredWords' = sessionIgnoredWords \cup {toLowerCase(word)}
              /\ ignoredThisMessage' = ignoredThisMessage \cup {toLowerCase(word)}
              /\ last' = Step("ignore", word)
    /\ timers' = timers \cup {Timer("rerun", <<>>, RerunDelay)}
    /\ popupElement' = hideTooltip
    /\ UNCHANGED <<editor, currentText, currentPositions, debounceTimer, lastTextLength,
                   netAt, posFrom, newest, clickEvent, callVars,
                   currentTextArea, parseVars, settings, queueVars, domVars, bindVars,
                   wordVars, now,
                   checkCache, inflight, lastFetch>>

\* showTooltip's suggestion button: CLEAR_TEXT now, INSERT_TEXT in 10 ms
ApplyReplacement ==
    /\ Gesture
    /\ currentTextArea /= Null
    /\ Pending("insert") = {}
    /\ \E i \in ClickableIssues :
          LET match == currentPositions[i].match
          IN  \E j \in 1..Len(match.replacements) :
                  LET pending == timers \cup
                        {Timer("insert",
                               applySuggestion(currentText, match, match.replacements[j]),
                               InsertDelay)}
                  IN  /\ IF editor = <<>>
                         THEN /\ timers' = pending
                              /\ UNCHANGED <<currentText, currentPositions, debounceTimer,
                                             sessionIgnoredWords, lastTextLength,
                                             underlineElements>>
                         ELSE handleTextChange(<<>>, pending, underlineElements)
                      /\ last' = [Step("replace", currentText) EXCEPT
                                    !.result = Some(applySuggestion(posFrom.text, match,
                                                                    match.replacements[j]))]
    /\ editor' = <<>>
    /\ popupElement' = hideTooltip
    /\ UNCHANGED <<netAt, posFrom, newest, ignoredThisMessage, clickEvent, callVars,
                   currentTextArea, parseVars, settings, queueVars, clickListeners, bindVars,
                   wordVars, now,
                   checkCache, inflight, lastFetch>>

\* the 10 ms timer of the suggestion button: INSERT_TEXT, then a re-check in 300 ms
InsertFires ==
    /\ \E t \in Pending("insert") :
          /\ t.due <= now
          /\ editor' = editor \o t.text
          /\ handleTextChange(editor \o t.text,
                              (timers \ {t}) \cup {Timer("rerun", <<>>, RecheckDelay)},
                              underlineElements)
    /\ last' = Step("insert", currentText)
    /\ UNCHANGED <<gestures, netAt, posFrom, newest, ignoredThisMessage,
                   currentTextArea, parseVars, settings, queueVars, clickListeners,
                   bindVars, clickVars, callVars,
                   wordVars, now,
                   checkCache, inflight, lastFetch>>

\* a timer that re-runs handleTextChange fires; unbound, the callback does
\* nothing (the 300 ms one) or throws reading the text (the 100 ms ones)
RerunFires ==
    /\ \E t \in Pending("rerun") :
          /\ t.due <= now
          /\ IF currentTextArea = Null
             THEN /\ timers' = timers \ {t}
                  /\ UNCHANGED <<currentText, currentPositions, debounceTimer,
                                 sessionIgnoredWords, lastTextLength, underlineElements>>
             ELSE handleTextChange(editor, timers \ {t}, underlineElements)
    /\ last' = Step("rerun", currentText)
    /\ UNCHANGED <<editor, gestures, netAt, posFrom, newest, ignoredThisMessage,
                   currentTextArea, parseVars, settings, queueVars, clickListeners,
                   bindVars, clickVars, callVars,
                   wordVars, now,
                   checkCache, inflight, lastFetch>>

\* the debounce timer fires: checkText(text), and the rest of the callback at
\* once when checkText resolves without a fetch
DebounceFires ==
    /\ Len(inflight) < MaxChecks
    /\ \E t \in Pending("debounce") :
       LET text == t.text
           fetches == ~checkTextRejects(text) /\ ~checkTextHit(text)
       IN  /\ t.due <= now
           /\ timers' = timers \ {t}
           /\ checkTextCalled(text, now)
           /\ netAt' = IF ~fetches THEN netAt
                       ELSE IF netAt = <<>> THEN <<now>>
                       ELSE <<netAt[Len(netAt)], now>>
           /\ IF fetches
              THEN UNCHANGED <<currentPositions, posFrom, newest, domVars>>
              ELSE Stores(now, text,
                          IF checkTextRejects(text) THEN Null ELSE getCachedCheck(text))
    /\ UNCHANGED <<editor, currentText, debounceTimer, sessionIgnoredWords, lastTextLength,
                   ignoredThisMessage, gestures, lastFetch, currentTextArea, parseVars,
                   settings, queueVars, bindVars, clickVars, callVars, wordVars>>

\* how the fetch of a check of the pipeline may end
PipeOutcomes(text) == { Ok(Response(OracleMatches(text))), Failure("neterr") }

\* the fetch of a check ends: checkText resolves and the callback goes on
ResponseArrives ==
    /\ \E i \in 1..Len(inflight) : \E outcome \in PipeOutcomes(inflight[i].text) :
          /\ checkTextResumed(i, outcome)
          /\ Stores(inflight[i].caller, inflight[i].text, checkTextResult(outcome))
    /\ UNCHANGED <<editor, currentText, debounceTimer, timers, sessionIgnoredWords,
                   lastTextLength, netAt, ignoredThisMessage, gestures, lastFetch,
                   currentTextArea, parseVars, settings, queueVars, bindVars, clickVars, callVars,
                   wordVars>>

\* stop()
Stop ==
    /\ checkInterval
    /\ checkInterval' = FALSE
    /\ timers' = clearTimeout(debounceTimer, timers)
    /\ debounceTimer' = Null
    /\ checkCache' = clearCache
    /\ currentTextArea' = Null
    /\ currentPositions' = <<>>
    /\ currentText' = <<>>
    /\ underlineElements' = clearUnderlines
    /\ popupElement' = hideTooltip
    /\ last' = Step("stop", currentText)
    /\ UNCHANGED <<editor, sessionIgnoredWords, lastTextLength, pipeHistory,
                   parseVars, settings, queueVars, clickListeners, surface, observed,
                   clickEvent, callVars,
                   wordVars, now, inflight, lastFetch>>

\* time passes, to the next deadline
TimePasses ==
    /\ \A d \in Deadlines : d > now
    /\ now' = IF Deadlines = {} THEN now + debounceDelay
              ELSE CHOOSE d \in Deadlines : \A e \in Deadlines : d <= e
    /\ now' <= Horizon
    /\ last' = Step("tick", <<>>)
    /\ UNCHANGED <<pipeVars, pipeHistory, parseVars, settings, queueVars, domVars,
                   bindVars, clickVars, callVars, wordVars,
                   checkCache, inflight, lastFetch>>

Next ==
    UserEdits \/ SendMessage \/ ClickIgnore \/ ApplyReplacement \/ InsertFires
    \/ RerunFires \/ DebounceFires \/ ResponseArrives \/ Stop \/ TimePasses

Spec == Init /\ [][Next]_vars

(***************************************************************************)
(* SpecScroll: the same pipeline with scroll and resize events             *)
(***************************************************************************)
\* handleScroll that also runs the edit pipeline
handleScroll_Rechecks ==
    handleTextChange(editor, timers,
                     IF currentPositions /= <<>>
                     THEN addVisualUnderlines(currentPositions, currentText)
                     ELSE underlineElements)

\* handleScroll of attachToTextArea
handleScroll ==
    /\ underlineElements' =
          IF currentPositions /= <<>>
          THEN addVisualUnderlines(currentPositions, currentText)
          ELSE underlineElements
    /\ UNCHANGED <<currentText, currentPositions, debounceTimer, timers,
                   sessionIgnoredWords, lastTextLength>>

\* the window scrolls or is resized while the listeners of attachToTextArea
\* are on it
ScrollOrResize ==
    /\ currentTextArea /= Null
    /\ handleScroll
    /\ last' = Step("scroll", currentText)
    /\ UNCHANGED <<editor, currentTextArea, pipeHistory, clickListeners, parseVars,
                   settings, queueVars, bindVars, clickVars, callVars, wordVars, now,
                   checkCache, inflight, lastFetch>>

NextScroll == Next \/ ScrollOrResize

SpecScroll == Init /\ [][NextScroll]_vars

\* the step is a render of the issue list: the debounce callback has a result
\* and the controller is bound, or the scroll handler finds issues
Renders ==
    /\ currentTextArea /= Null
    /\ \/ last'.op \in {"call", "return"} /\ last'.resolved /\ last'.result /= Null
       \/ last'.op = "scroll" /\ currentPositions /= <<>>

\* whether the composer's text reaches to both ends of the span
Resolves(pos) ==
    editor /= <<>> /\ pos.start <= Len(editor) /\ pos.end <= Len(editor)
\* the lines on which the span has characters
LinesOf(pos) == { c \div LineLength : c \in pos.start..(pos.end - 1) }
\* the marker of the part of the span on a line
LineMarker(pos, line) ==
    LET cells == { c \in pos.start..(pos.end - 1) : c \div LineLength = line }
    IN  [position |-> pos,
         rect |-> [line |-> line,
                   left |-> (CHOOSE c \in cells : \A d \in cells : c <= d)
                                - line * LineLength,
                   width |-> Cardinality(cells)]]
\* how often a marker is due for a list of issues
Due(marker, positions) ==
    Cardinality({ i \in 1..Len(positions) :
                    /\ Resolves(positions[i])
                    /\ \E line \in LinesOf(positions[i]) :
                          marker = LineMarker(positions[i], line) })
Mounted(marker, markers) ==
    Cardinality({ i \in 1..Len(markers) : markers[i] = marker })

\* C33: a render of an issue list first removes every marker mounted by
\* earlier renders, and an issue whose span cannot be resolved to a screen
\* range is skipped without aborting: after the render the mounted markers
\* are exactly those of the issues of this list that resolved, one per
\* non-empty line rectangle.
C33_RenderMountsResolvedIssues ==
    [][ Renders =>
          /\ \A i \in 1..Len(underlineElements') :
                Mounted(underlineElements'[i], underlineElements')
                    = Due(underlineElements'[i], currentPositions')
          /\ \A i \in 1..Len(currentPositions') :
                Resolves(currentPositions'[i]) =>
                    \A line \in LinesOf(currentPositions'[i]) :
                        Mounted(LineMarker(currentPositions'[i], line),
                                underlineElements') >= 1
      ]_vars

\* the issues of "teh wrod" are mounted, the user has cut the text down to
\* "teh", and the window scrolls: the markers of "teh" are mounted again and
\* the issue of "wrod" is skipped
C33_Witness ==
    /\ last.op = "scroll"
    /\ editor = Teh
    /\ Len(currentPositions) = 2
    /\ currentPositions[2].start = 4 /\ currentPositions[2].end = 8
    /\ underlineElements /= <<>>
    /\ \A i \in 1..Len(underlineElements) :
          underlineElements[i].position = currentPositions[1]

\* C34: a scroll or resize event only re-projects the markers of the
\* existing issue list: it issues no check and no network call, starts no
\* debounce timer, and leaves the issue list, the text snapshot, the cache
\* and both suppression tiers unchanged.
C34_ScrollOnlyReprojects ==
    [][ last'.op = "scroll" =>
          /\ UNCHANGED <<inflight, netAt, requestLog, requestQueue, rateLimitTimeout>>
          /\ UNCHANGED <<timers, debounceTimer>>
          /\ UNCHANGED <<currentPositions, currentText, checkCache>>
          /\ UNCHANGED <<sessionIgnoredWords, ignoredWordsCache, dataStore, dsQueue>>
          /\ currentPositions = <<>> => UNCHANGED underlineElements
      ]_vars

\* a scroll with issues in the list and a debounce timer pending
C34_Witness ==
    /\ last.op = "scroll"
    /\ currentPositions /= <<>>
    /\ underlineElements /= <<>>
    /\ \E t \in timers : t.kind = "debounce"

(***************************************************************************)
(* SpecClick: the same pipeline with clicks on the composer that open the  *)
(* correction popup and leave it open                                      *)
(***************************************************************************)
\* the first issue in list order that handleTextAreaClick takes a click at
\* clickPosition to be on, 0 when there is none
ClickedIssue(clickPosition) ==
    IF IssuesAt(clickPosition) = {} THEN 0
    ELSE CHOOSE i \in IssuesAt(clickPosition) : \A j \in IssuesAt(clickPosition) : i <= j

Click(position, stopped) == [position |-> position, stopped |-> stopped]

\* a click on the composer reaches handleTextAreaClick; caretRangeFromPoint
\* resolves it to a character position of the composer or to nothing, and
\* selecting the contents of an unbound composer throws
TextAreaClicked ==
    /\ Gesture
    /\ "textbox" \in clickListeners
    /\ \E range \in {Null} \cup {Some(p) : p \in 0..Len(editor)} :
          LET found == IF range = Null \/ currentTextArea = Null THEN 0
                       ELSE ClickedIssue(range[1])
          IN  /\ popupElement' = IF found = 0 THEN popupElement
                                 ELSE Some(currentPositions[found])
              /\ clickEvent' = Some(Click(range, found /= 0))
              /\ last' = Step("click", currentText)
    /\ UNCHANGED <<pipeVars, netAt, posFrom, newest, ignoredThisMessage, callVars,
                   parseVars, settings, queueVars, domVars, bindVars, wordVars, now,
                   checkCache, inflight, lastFetch>>

NextClick == Next \/ TextAreaClicked

SpecClick == Init /\ [][NextClick]_vars

\* the issues whose half-open span holds the character offset p
Containing(p) ==
    { i \in 1..Len(currentPositions) :
        currentPositions[i].start <= p /\ p < currentPositions[i].end }

\* C30: a click at character offset p opens the correction popup for the
\* first issue in list order whose half-open span [start, end) contains p,
\* and opens no popup and lets the event propagate when no issue's span
\* contains p.
C30_ClickOpensContainingIssue ==
    [][ (last'.op = "click" /\ clickEvent'[1].position /= Null) =>
            LET p == clickEvent'[1].position[1]
            IN  IF Containing(p) = {}
                THEN ~clickEvent'[1].stopped /\ popupElement' = popupElement
                ELSE /\ clickEvent'[1].stopped
                     /\ \E i \in Containing(p) :
                           /\ \A j \in Containing(p) : i <= j
                           /\ popupElement' = Some(currentPositions[i]) ]_vars

(***************************************************************************)
(* SpecMalformed: the same pipeline with an oracle that may also answer    *)
(* 2xx with a body that is not JSON, is JSON null, or is an object without *)
(* a matches list                                                          *)
(***************************************************************************)
MalformedOutcomes == { Failure("badjson"), Ok(NullBody), Ok(NoMatchesBody) }

\* the fetch of a check ends with a malformed body
MalformedArrives ==
    /\ \E i \in 1..Len(inflight) : \E outcome \in MalformedOutcomes :
          /\ checkTextResumed(i, outcome)
          /\ Stores(inflight[i].caller, inflight[i].text, checkTextResult(outcome))
    /\ UNCHANGED <<editor, currentText, debounceTimer, timers, sessionIgnoredWords,
                   lastTextLength, netAt, ignoredThisMessage, gestures, lastFetch,
                   currentTextArea, parseVars, settings, queueVars, bindVars, clickVars,
                   callVars, wordVars>>

NextMalformed == Next \/ MalformedArrives

SpecMalformed == Init /\ [][NextMalformed]_vars

(***************************************************************************)
(* SpecBudget: the same pipeline with the character budget configured      *)
(* below the length of "teh wrod"                                          *)
(***************************************************************************)
\* the maxCharacters the user has configured
TightBudget == 5

InitBudget ==
    /\ IdleParse /\ IdleClient /\ IdleStore /\ IdlePipe /\ IdleQueue /\ IdleDom
    /\ IdleBind /\ IdleClick /\ IdleCall
    /\ settings = [checkSpelling |-> TRUE, checkGrammar |-> TRUE,
                   showStyleSuggestions |-> TRUE, maxCharacters |-> TightBudget]
    /\ ignoredWordsCache = Some({})

SpecBudget == InitBudget /\ [][Next]_vars

(***************************************************************************)
(* Claims about the pipeline, checked under Spec                           *)
(***************************************************************************)
\* C14: once stop() has returned, no timer scheduled before it starts a check
\* and no listener or observer reacts to a composer edit: no network call is
\* issued, none is awaited, and the issue list stays empty.
C14_QuietAfterStop ==
    currentTextArea = Null =>
        /\ last.op /= "call"
        /\ debounceTimer = Null
        /\ currentPositions = <<>>

\* C11: the text the suggestion button inserts into the composer is
\* T[:offset] + R + T[offset+length:] for the text T the match was reported
\* for (last.result, when the button has just been pressed).
C11_InsertsReplacementInCheckedText ==
    last.op = "replace" =>
        \A t \in Pending("insert") : Some(t.text) = last.result

\* C18: of a burst of qualifying edits, each less than the debounce delay
\* after the one before, only the last one's check is invoked: at most one
\* debounce timer is pending, it is the one the last qualifying edit set, and
\* a check is invoked for the text of that edit, no sooner than the debounce
\* delay after it, and once.
C18_OneCheckPerBurst ==
    /\ Cardinality(Pending("debounce")) <= 1
    /\ \A t \in Pending("debounce") : debounceTimer = Some(t)
    /\ last.op = "call" =>
          /\ debounceTimer /= Null
          /\ last.text = debounceTimer[1].text
          /\ now >= debounceTimer[1].due
          /\ debounceTimer[1] \notin timers
\* the check of a burst of two edits at one instant, "teh" then "teh wrod"
C18_Witness ==
    /\ last.op = "call" /\ last.text = TehWrod
    /\ editor = TehWrod /\ gestures = 2 /\ now = debounceDelay

\* C21: when the check the debounce timer started has resolved to null, the
\* issue list is empty and no marker is mounted.
C21_NullClearsIssuesAndMarkers ==
    (last.op \in {"call", "return"} /\ last.resolved /\ last.result = Null) =>
        /\ currentPositions = <<>>
        /\ underlineElements = <<>>
\* a fetch ends without a result after an earlier check had stored a response
C21_Witness ==
    /\ last.op = "return" /\ last.resolved /\ last.result = Null
    /\ clickListeners /= {} /\ currentTextArea /= Null

\* C22: a non-empty issue list was computed from a text equal to the text
\* handleTextChange last read.
C22_IssuesOfCurrentText ==
    currentPositions /= <<>> => posFrom.text = currentText

\* C23: a response that arrives once stop() has unbound the controller leaves
\* the issue list empty, mounts no marker and installs no listener.
C23_ResponseAfterStopIgnored ==
    [][ (currentTextArea = Null /\ last'.op = "return") =>
            /\ currentPositions' = <<>>
            /\ underlineElements' = <<>>
            /\ clickListeners' = clickListeners ]_vars

\* the fetch that has just ended answered 2xx with a malformed body
MalformedReturn ==
    /\ last.op = "return"
    /\ \/ last.outcome = "badjson"
       \/ last.outcome = "ok" /\ last.result = Null
       \/ last.outcome = "ok" /\ last.result /= Null /\ ~last.result[1].hasMatches

\* C26: a 2xx response with a malformed body makes checkText resolve to
\* null and write nothing into the cache, and the pipeline then holds no
\* issue and no marker.
C26_MalformedBodyIsNoResult ==
    MalformedReturn =>
        /\ last.result = Null
        /\ ~last.touched
        /\ currentPositions = <<>>
        /\ underlineElements = <<>>

\* C19: after an edit that left the composer text empty, and until a later
\* edit produces a non-empty text, the issue list is empty.
C19_EmptyTextKeepsListEmpty ==
    (currentTextArea /= Null /\ currentText = <<>>) => currentPositions = <<>>

\* C20: a step that leaves the text handleTextChange last read longer than
\* the configured budget, the over-budget edit itself or any step while the
\* text stays over budget, starts no check and leaves the issue list as it was.
C20_OverBudgetKeepsList ==
    [][ Len(currentText') > MaxCharactersOf(settings) =>
            /\ last'.op /= "call"
            /\ currentPositions' = currentPositions ]_vars

\* C2: no two network calls of the edit pipeline are issued less than the
\* minimum interval (3 s) apart; requests closer than that result in one call.
C2_RateSpacing ==
    Len(netAt) = 2 => netAt[2] - netAt[1] >= MIN_REQUEST_INTERVAL

\* C4: the answer to a check started for an older text never overwrites the
\* issues stored from a check of a more recent text: the stored issue list
\* comes from the latest-started check that has stored, or from a check of
\* the same text.
C4_NoStaleOverwrite ==
    posFrom.seq < newest.seq => posFrom.text = newest.text

\* a step in which the debounce callback stored an issue list
StoredNow == last.op \in {"call", "return"} /\ last.resolved
\* the flagged words of the stored issue list, lower-cased
StoredWords ==
    { toLowerCase(substring(posFrom.text, currentPositions[i].start,
                            currentPositions[i].end)) :
        i \in 1..Len(currentPositions) }

\* C6: once the user has selected "ignore" on a word, every issue list the
\* pipeline stores until the message is sent excludes the issues whose flagged
\* text equals the word case-insensitively, whatever edits and replacements
\* happen in between.
C6_IgnoredForTheMessage ==
    StoredNow => StoredWords \cap ignoredThisMessage = {}

\* C7: when the composer goes from a text the pipeline has read as non-empty
\* to the empty text, the per-message ignore set is empty afterwards, however
\* long the previous text was.
C7_IgnoreSetResetOnEmpty ==
    (last.op \in {"edit", "send"} /\ trim(last.text) /= <<>> /\ editor = <<>>)
        => sessionIgnoredWords = {}

(***************************************************************************)
(* SpecQueue: queueCheck of utils/api.ts, called at any time by a client.  *)
(* A timer never fires before it is due; a call made at the instant it is  *)
(* due may run before it.                                                  *)
(***************************************************************************)
\* queueCheck is called at most this many times
MaxRequests == 3

QueueTexts == { Teh, Cat }
\* how far the clock moves in one step, and where it stops
QueueStep == MIN_REQUEST_INTERVAL \div 3
QueueHorizon == 3 * MIN_REQUEST_INTERVAL

\* a request as requestLog keeps it: whether checkText was called for it,
\* whether a newer request arrived before that, whether its callback ran
Request(text) == [text |-> text, issued |-> FALSE, stale |-> FALSE, called |-> FALSE]
\* requestLog when a new request arrives
Superseding(log) ==
    [i \in 1..Len(log) |-> IF log[i].issued THEN log[i] ELSE [log[i] EXCEPT !.stale = TRUE]]

\* lastRequestTime = now; checkText(text).then(callback), for request id of log
IssueRequest(id, text, log) ==
    /\ lastRequestTime' = now
    /\ checkTextCalled(text, id)
    /\ requestLog' = [log EXCEPT ![id].issued = TRUE,
                                 ![id].called = checkTextRejects(text) \/ checkTextHit(text)]

InitQueue ==
    /\ IdleParse /\ IdleStore /\ IdlePipe /\ IdleQueue /\ IdleDom
    /\ IdleBind /\ IdleClick /\ IdleCall
    /\ settings = AllEnabled
    /\ ignoredWordsCache = Null
    \* Date.now() is far more than the interval past lastRequestTime = 0
    /\ now = MIN_REQUEST_INTERVAL
    /\ checkCache = <<>> /\ inflight = <<>> /\ lastFetch = {} /\ last = NoStep

\* queueCheck(text, callback)
QueueCheckCalled ==
    /\ Len(requestLog) < MaxRequests
    /\ \E text \in QueueTexts :
          LET id == Len(requestLog) + 1
              log == Append(Superseding(requestLog), Request(text))
              timeSinceLastRequest == now - lastRequestTime
          IN  IF timeSinceLastRequest >= MIN_REQUEST_INTERVAL
              THEN /\ IssueRequest(id, text, log)
                   /\ UNCHANGED <<rateLimitTimeout, requestQueue>>
              ELSE /\ requestQueue' = <<[text |-> text, id |-> id]>>
                   /\ rateLimitTimeout' =
                         Some(now + (MIN_REQUEST_INTERVAL - timeSinceLastRequest))
                   /\ requestLog' = log
                   /\ last' = Step("deferred", text)
                   /\ UNCHANGED <<lastRequestTime, checkCache, inflight, now>>
    /\ UNCHANGED <<lastFetch, parseVars, settings, wordVars, pipeVars, pipeHistory,
                   domVars, bindVars, clickVars, callVars>>

\* the rate-limit timer fires
RateLimitTimerFires ==
    /\ rateLimitTimeout /= Null
    /\ rateLimitTimeout[1] <= now
    /\ rateLimitTimeout' = Null
    /\ IF requestQueue = <<>>
       THEN /\ last' = Step("idle", <<>>)
            /\ UNCHANGED <<requestQueue, lastRequestTime, requestLog,
                           checkCache, inflight, now>>
       ELSE /\ requestQueue' = Tail(requestQueue)
            /\ IssueRequest(Head(requestQueue).id, Head(requestQueue).text, requestLog)
    /\ UNCHANGED <<lastFetch, parseVars, settings, wordVars, pipeVars, pipeHistory,
                   domVars, bindVars, clickVars, callVars>>

\* the fetch of a request ends and its callback runs
QueueFetchEnds ==
    /\ \E i \in 1..Len(inflight) : \E outcome \in PipeOutcomes(inflight[i].text) :
          /\ checkTextResumed(i, outcome)
          /\ requestLog' = [requestLog EXCEPT ![inflight[i].caller].called = TRUE]
    /\ UNCHANGED <<rateLimitTimeout, requestQueue, lastRequestTime,
                   lastFetch, parseVars, settings, wordVars, pipeVars, pipeHistory,
                   domVars, bindVars, clickVars, callVars>>

\* time passes, not beyond the instant the rate-limit timer is due
QueueTimePasses ==
    /\ rateLimitTimeout /= Null => rateLimitTimeout[1] > now
    /\ now' = IF rateLimitTimeout = Null THEN now + QueueStep
              ELSE Min(now + QueueStep, rateLimitTimeout[1])
    /\ now' <= QueueHorizon
    /\ last' = Step("tick", <<>>)
    /\ UNCHANGED <<queueVars, domVars, bindVars, clickVars, callVars, checkCache, inflight,
                   lastFetch,
                   parseVars, settings, wordVars, pipeVars, pipeHistory>>

NextQueue ==
    QueueCheckCalled \/ RateLimitTimerFires \/ QueueFetchEnds \/ QueueTimePasses

SpecQueue == InitQueue /\ [][NextQueue]_vars

\* C17: a queueCheck request that another request followed before checkText
\* was called for it is never issued and its callback never runs; at most
\* one request is deferred at any time.
C17_OnlyNewestIssued ==
    /\ \A i \in 1..Len(requestLog) :
          requestLog[i].stale => ~requestLog[i].issued /\ ~requestLog[i].called
    /\ Len(requestQueue) <= 1
    /\ Cardinality({i \in 1..Len(requestLog) :
                       ~requestLog[i].issued /\ ~requestLog[i].stale}) <= 1

(***************************************************************************)
(* SpecBind: start(), stop(), the discovery poll and the composer element  *)
(* of the document.  The composer stays empty.                             *)
(***************************************************************************)
\* the composer elements the document may hold, one at a time
Elements == { "textbox", "textbox2", "textbox3", "textbox4" }

\* attachToTextArea(textArea)
attachToTextArea(textArea) ==
    IF currentTextArea = Some(textArea)
    THEN UNCHANGED <<currentTextArea, observed, currentText, currentPositions,
                     debounceTimer, timers, sessionIgnoredWords, lastTextLength,
                     underlineElements>>
    ELSE /\ currentTextArea' = Some(textArea)
         /\ observed' = observed \cup {textArea}
         /\ handleTextChange(editor, timers, underlineElements)

\* findAndAttachTextArea()
findAndAttachTextArea ==
    IF surface /= Null /\ surface[1] \notin observed
    THEN attachToTextArea(surface[1])
    ELSE UNCHANGED <<currentTextArea, observed, currentText, currentPositions,
                     debounceTimer, timers, sessionIgnoredWords, lastTextLength,
                     underlineElements>>

\* the plugin is constructed and not started; the document may hold a composer
InitBind ==
    /\ IdleParse /\ IdleClient /\ IdleStore /\ IdleQueue /\ IdleDom /\ IdleClick /\ IdleCall
    /\ editor = <<>> /\ currentText = <<>> /\ currentPositions = <<>>
    /\ debounceTimer = Null /\ timers = {}
    /\ sessionIgnoredWords = {} /\ lastTextLength = 0
    /\ netAt = <<>> /\ posFrom = NoCheck /\ newest = NoCheck
    /\ ignoredThisMessage = {} /\ gestures = 0
    /\ settings = AllEnabled
    /\ ignoredWordsCache = Null
    /\ currentTextArea = Null
    /\ surface \in {Null, Some("textbox")}
    /\ observed = {}
    /\ checkInterval = FALSE

\* start(), DataStore.get answering or rejecting
Start ==
    /\ ~checkInterval
    /\ \E ok \in BOOLEAN :
          ignoredWordsCache' = IF ignoredWordsCache = Null THEN Some(LoadedWords(ok))
                               ELSE ignoredWordsCache
    /\ checkCache' = clearCache
    /\ checkInterval' = TRUE
    /\ findAndAttachTextArea
    /\ last' = Step("start", <<>>)
    /\ UNCHANGED <<editor, surface, clickListeners, clickVars, callVars, pipeHistory, parseVars,
                   settings, queueVars, dataStore, dsQueue, added, removed, now, inflight,
                   lastFetch>>

\* the interval of start() fires
Poll ==
    /\ checkInterval
    /\ findAndAttachTextArea
    /\ last' = Step("poll", <<>>)
    /\ UNCHANGED <<editor, surface, checkInterval, clickListeners, clickVars, callVars,
                   pipeHistory,
                   parseVars, settings, queueVars, wordVars, now, checkCache,
                   inflight, lastFetch>>

\* the document replaces its composer by a new element, or removes it
SurfaceReplaced ==
    /\ \E next \in {Null} \cup {Some(e) : e \in Elements \ observed} :
          /\ next /= surface
          /\ surface' = next
    /\ last' = Step("replaced", <<>>)
    /\ UNCHANGED <<pipeVars, pipeHistory, domVars, clickVars, callVars, observed, checkInterval,
                   parseVars, settings, queueVars, wordVars, now, checkCache,
                   inflight, lastFetch>>

NextBind == Start \/ Stop \/ Poll \/ SurfaceReplaced

SpecBind == InitBind /\ [][NextBind]_vars /\ WF_vars(Poll)

\* the plugin is running and the composer of the document is not the bound one
Unbound == checkInterval /\ surface /= Null /\ currentTextArea /= surface

\* C24: while the plugin is running, a composer in the document that is not
\* the bound one is eventually bound by the discovery poll, also after
\* stop() and start().
C24_PollEventuallyBinds == Unbound ~> ~Unbound

(***************************************************************************)
(* SpecCache: checkText filling the cache past its capacity.  The client   *)
(* asks for texts it has not asked for before, one at a time, and for its  *)
(* first text again while a fetch of it is awaited; a millisecond passes   *)
(* after every response.                                                   *)
(***************************************************************************)
\* fetches awaiting their response at one time
MaxFetches == 2

\* the k-th text the client asks for: two letters
KeyLetters == <<"a", "b", "c", "d", "e", "f", "g", "h">>
KeyText(k) ==
    <<KeyLetters[((k - 1) \div Len(KeyLetters)) + 1],
      KeyLetters[((k - 1) % Len(KeyLetters)) + 1]>>
LetterIndex(c) == CHOOSE i \in 1..Len(KeyLetters) : KeyLetters[i] = c
KeyIndex(text) == (LetterIndex(text[1]) - 1) * Len(KeyLetters) + LetterIndex(text[2])
\* how many different texts the client has asked for
KeysAsked ==
    LET asked == {KeyIndex(checkCache[i].text) : i \in 1..Len(checkCache)}
                     \cup {KeyIndex(inflight[i].text) : i \in 1..Len(inflight)}
    IN  IF asked = {} THEN 0 ELSE CHOOSE n \in asked : \A m \in asked : n >= m
\* the client stops after this many texts
MaxKeys == CacheCapacity + 2
\* and the clock stops here
CacheHorizon == MaxKeys + MaxFetches

InitCache ==
    /\ IdleParse /\ IdleClient /\ IdleStore /\ IdlePipe /\ IdleQueue /\ IdleDom
    /\ IdleBind /\ IdleClick /\ IdleCall
    /\ settings = AllEnabled
    /\ ignoredWordsCache = Null

\* checkText(text) for a new text, or for the first text again
CacheClientCalls ==
    /\ last.op /= "return"
    /\ Len(inflight) < MaxFetches
    /\ now < CacheHorizon
    /\ \E k \in {1, KeysAsked + 1} :
          /\ k <= MaxKeys
          /\ k > 1 => \A i \in 1..Len(inflight) : inflight[i].text = KeyText(1)
          /\ k = 1 => \/ KeysAsked = 0
                      \/ \E i \in 1..Len(inflight) : inflight[i].text = KeyText(1)
          /\ checkTextCalled(KeyText(k), "client")
    /\ UNCHANGED <<lastFetch, parseVars, settings, queueVars, domVars, bindVars, clickVars,
                   callVars,
                   wordVars, pipeVars, pipeHistory>>

\* a fetch ends with a well-formed response
CacheFetchEnds ==
    /\ last.op /= "return"
    /\ \E i \in 1..Len(inflight) : checkTextResumed(i, Ok(Response(<<>>)))
    /\ UNCHANGED <<lastFetch, parseVars, settings, queueVars, domVars, bindVars, clickVars,
                   callVars,
                   wordVars, pipeVars, pipeHistory>>

\* a millisecond passes
CacheTick ==
    /\ last.op = "return"
    /\ now' = now + 1
    /\ last' = [NoStep EXCEPT !.op = "tick"]
    /\ UNCHANGED <<checkCache, inflight, lastFetch, parseVars, settings, queueVars,
                   domVars, bindVars, clickVars, callVars, wordVars, pipeVars, pipeHistory>>

NextCache == CacheClientCalls \/ CacheFetchEnds \/ CacheTick

SpecCache == InitCache /\ [][NextCache]_vars

\* C25: the cache never holds more than 50 entries, and an entry a write
\* removes has the oldest timestamp of the entries held before the write.
C25_EvictsOldestTimestamp ==
    [][ /\ Len(checkCache') <= CacheCapacity
        /\ \A e \in Entries(checkCache) :
              (\A f \in Entries(checkCache') : f.text /= e.text)
                  => \A g \in Entries(checkCache) : e.timestamp <= g.timestamp
      ]_vars

(***************************************************************************)
(* SpecCaret: the suggestion button of showTooltip, as the text and the    *)
(* caret it computes                                                       *)
(***************************************************************************)
\* the replacements a suggestion button may carry
Replacements == { <<>>, <<"a">>, <<"t", "h", "e">>, <<"t", "h", "e", "i", "r">> }

\* the spans an issue of the list may have: the oracle's, not validated
CaretSpans(text) ==
    { [offset |-> o, length |-> l] :
        o \in 0..(Len(text) + MaxSlack), l \in 0..(Len(text) + MaxSlack) }

\* the caret the handler computes without the shift by the length difference
newCursorPos_NoShift(cursorPos, match, replacement) ==
    IF cursorPos > match.offset + match.length THEN cursorPos
    ELSE IF cursorPos > match.offset THEN match.offset + Len(replacement)
    ELSE cursorPos

\* the caret the handler computes for setCursorPosition
newCursorPos(cursorPos, match, replacement) ==
    LET lengthDiff == Len(replacement) - match.length
    IN  IF cursorPos > match.offset + match.length THEN cursorPos + lengthDiff
        ELSE IF cursorPos > match.offset THEN match.offset + Len(replacement)
        ELSE cursorPos

\* the popup is open for a match of the text, the caret is somewhere in the
\* composer, which holds the text
InitCaret ==
    /\ IdleProgram
    /\ \E text \in {Teh, TehWrod} : \E match \in CaretSpans(text) :
       \E replacement \in Replacements : \E cursorPos \in 0..Len(text) :
          args = Some([text |-> text, match |-> match, replacement |-> replacement,
                       cursorPos |-> cursorPos])
    /\ returned = Null

\* mousedown on the suggestion button
SuggestionPressed ==
    /\ returned = Null
    /\ LET a == args[1]
       IN  returned' = Some([newText |-> applySuggestion(a.text, a.match, a.replacement),
                             newCursorPos |->
                                 newCursorPos(a.cursorPos, a.match, a.replacement)])
    /\ UNCHANGED <<args, otherVars>>

NextCaret == SuggestionPressed

SpecCaret == InitCaret /\ [][NextCaret]_vars

\* C31: when a replacement R is applied to a match at [offset, offset+length)
\* with the caret at c before the change, the restored caret is c if
\* c <= offset, offset + len(R) if offset < c < offset+length, and
\* c + len(R) - length if c >= offset+length; in every case it lies within
\* [0, len(new text)].
C31_CaretAfterReplacement ==
    returned /= Null =>
        LET c == args[1].cursorPos
            offset == args[1].match.offset
            length == args[1].match.length
            R == args[1].replacement
            caret == returned[1].newCursorPos
        IN  /\ c <= offset => caret = c
            /\ (offset < c /\ c < offset + length) => caret = offset + Len(R)
            /\ (offset < c /\ c >= offset + length) => caret = c + Len(R) - length
            /\ 0 <= caret /\ caret <= Len(returned[1].newText)

\* "wrod" replaced by "a" in "teh wrod" with the caret at the end of the text:
\* the caret moves left by three
C31_Witness ==
    /\ returned /= Null
    /\ args[1].text = TehWrod
    /\ args[1].match = [offset |-> 4, length |-> 4]
    /\ args[1].replacement = <<"a">>
    /\ args[1].cursorPos = 8
    /\ returned[1].newText = <<"t", "e", "h", " ", "a">>
    /\ returned[1].newCursorPos = 5

(***************************************************************************)
(* SpecOffset: findTextNode on bounded node trees                          *)
(***************************************************************************)
\* the longest text of a text node, and the most children of an element
MaxLeaf == 2
MaxKids == 2

TextNodes == { TextNode(l) : l \in 0..MaxLeaf }
\* the elements inside a composer: an empty one, a span around a text node,
\* and a span around a text node and a span
InnerElements ==
    {Element(<<>>)} \cup { Element(<<t>>) : t \in TextNodes }
        \cup { Element(<<t, Element(<<u>>)>>) : t, u \in TextNodes }
Containers == { Element(kids) : kids \in SeqsUpTo(TextNodes \cup InnerElements, MaxKids) }

\* the lengths of the text nodes under a node, in document order
RECURSIVE LeafLengths(_)
LeafLengths(node) ==
    IF node.text THEN <<node.len>>
    ELSE IF node.kids = <<>> THEN <<>>
    ELSE LeafLengths(Head(node.kids)) \o LeafLengths(Element(Tail(node.kids)))

RECURSIVE SumTo(_, _)
SumTo(lens, k) == IF k = 0 THEN 0 ELSE lens[k] + SumTo(lens, k - 1)
TextLength(node) == SumTo(LeafLengths(node), Len(LeafLengths(node)))

InitOffset ==
    /\ IdleProgram
    /\ \E element \in Containers :
       \E targetPosition \in 0..(TextLength(element) + MaxSlack) :
          args = Some([element |-> element, targetPosition |-> targetPosition])
    /\ returned = Null

FindTextNodeCalled ==
    /\ returned = Null
    /\ returned' = Some(findTextNode(args[1].element, args[1].targetPosition))
    /\ UNCHANGED <<args, otherVars>>

NextOffset == FindTextNodeCalled

SpecOffset == InitOffset /\ [][NextOffset]_vars

\* whether what findTextNode returned is the text node and the offset of p
Locates(found, lens, p) ==
    /\ found /= Null
    /\ found[1].node \in 1..Len(lens)
    /\ 0 <= found[1].offset /\ found[1].offset <= lens[found[1].node]
    /\ SumTo(lens, found[1].node - 1) + found[1].offset = p

\* C32: for a container whose text leaves have lengths l1..ln in document
\* order and every target offset p, findTextNode returns a leaf k and an
\* intra-node offset o with 0 <= o <= lk and l1+...+l(k-1) + o = p when
\* 0 <= p <= l1+...+ln, and reports failure (null, no exception) when p
\* exceeds the total length.
C32_LocatesEveryOffset ==
    returned /= Null =>
        LET lens == LeafLengths(args[1].element)
            p == args[1].targetPosition
        IN  IF p <= SumTo(lens, Len(lens))
            THEN Locates(returned[1], lens, p)
            ELSE returned[1] = Null

\* C32, amended: the same for a container with at least one text leaf; for a
\* container without text leaves findTextNode reports failure for every
\* offset, 0 included.
C32_LocatesWithinLeaves ==
    returned /= Null =>
        LET lens == LeafLengths(args[1].element)
            p == args[1].targetPosition
        IN  IF lens /= <<>> /\ p <= SumTo(lens, Len(lens))
            THEN Locates(returned[1], lens, p)
            ELSE returned[1] = Null

\* text nodes of lengths 2, 0 and 1, the last two inside spans: offset 3 is
\* the end of the third
C32_Witness ==
    /\ returned /= Null
    /\ args[1].element =
          Element(<<TextNode(2), Element(<<TextNode(0), Element(<<TextNode(1)>>)>>)>>)
    /\ args[1].targetPosition = 3
    /\ returned[1] = Some([node |-> 3, offset |-> 1])

(***************************************************************************)
(* SpecWave: generateWavyPath on bounded rectangle widths                  *)
(***************************************************************************)
\* the widest rectangle, in pixels
MaxWidth == 24
\* the waveHeight and wavelength addVisualUnderlines passes
waveHeight == 3
wavelength == 4

\* Math.ceil(a / b) for positive integers
Ceil(a, b) == (a + b - 1) \div b

\* generateWavyPath(width, height, wavelength): the move and the curves of
\* the path; x in pixels for a wavelength that is a multiple of 4, y in half
\* pixels
generateWavyPath(width, height, wl) ==
    LET amplitude == height
        numWaves == Ceil(width, wl)
    IN  [move |-> [x |-> 0, y |-> amplitude],
         curves |->
            [n \in 1..(numWaves + 1) |->
                LET x == (n - 1) * wl
                IN  [controlX1 |-> x + wl \div 4, controlY1 |-> 0,
                     controlX2 |-> x + (wl * 3) \div 4, controlY2 |-> 2 * height,
                     endX |-> x + wl, endY |-> amplitude]]]

InitWave ==
    /\ IdleProgram
    /\ \E width \in 1..MaxWidth : \E height \in {waveHeight, waveHeight + 1} :
       \E wl \in {wavelength, 2 * wavelength} :
          args = Some([width |-> width, height |-> height, wavelength |-> wl])
    /\ returned = Null

GenerateWavyPathCalled ==
    /\ returned = Null
    /\ returned' = Some(generateWavyPath(args[1].width, args[1].height,
                                         args[1].wavelength))
    /\ UNCHANGED <<args, otherVars>>

NextWave == GenerateWavyPathCalled

SpecWave == InitWave /\ [][NextWave]_vars

\* C35: for every positive rectangle width w, the wavy underline path
\* generated for w starts at x = 0 and ends at x = w exactly: no curve
\* segment extends past w, a partial final period being scaled to fit.
C35_PathFitsWidth ==
    returned /= Null =>
        LET w == args[1].width
            path == returned[1]
        IN  /\ path.move.x = 0
            /\ path.curves /= <<>>
            /\ path.curves[Len(path.curves)].endX = w
            /\ \A n \in 1..Len(path.curves) :
                  /\ path.curves[n].controlX1 <= w
                  /\ path.curves[n].controlX2 <= w
                  /\ path.curves[n].endX <= w

====
